---------------------------- MODULE Spec2Model ----------------------------
(***************************************************************************)
(* A model of the Bristlemouth messaging layer of ML-Sensors:              *)
(*   - protocol.py : the topic codec and the checksummed message codec,    *)
(*   - sensors.py  : the sensors' reading wrapper (sequence counters),     *)
(*   - spotter.py  : the buoy client (bounded queue, simulated transmit,   *)
(*                   history, connection state, listener lists).           *)
(* Bytes are the integers 0..255, byte strings are sequences of bytes,     *)
(* Python strings are sequences of Unicode code points, and Python floats  *)
(* are IEEE-754 binary64 values kept as a sign, a 53-bit significand       *)
(* (most significant bit first) and a binary exponent.                     *)
(***************************************************************************)
EXTENDS Integers, Sequences, FiniteSets, TLC

(***************************************************************************)
(* Small helpers on sequences and bit strings.                             *)
(***************************************************************************)
Range(s) == {s[i] : i \in DOMAIN s}

Min(a, b) == IF a <= b THEN a ELSE b

Rep(x, n) == [i \in 1..n |-> x]

\* s[a:b] of Python for 0 <= a, with the clamping Python slices do.
Slice(s, a, b) ==
  LET hi == Min(b, Len(s))
  IN  IF a >= hi THEN << >> ELSE [i \in 1..(hi - a) |-> s[a + i]]

Pow2(n) == 2 ^ n

\* e, with v evaluated first: TLC evaluates definitions on demand, and a long
\* chain of pending values would exhaust its evaluation stack
Strict(v, e) == IF v = v THEN e ELSE e

\* the element of a one-element set.  The({e : x \in {v}}) is e with the
\* local x bound to the value v, v being evaluated once and before e
The(S) == CHOOSE x \in S : TRUE

(***************************************************************************)
(* Results of operations that can raise: Ok(v) or Raise(e), e naming the   *)
(* Python exception class and, for ValueError, the message.                *)
(***************************************************************************)
Ok(v) == [ok |-> TRUE, val |-> v]

Raise(e) == [ok |-> FALSE, err |-> e]

\* Optional values: None, or Some(x)
None == << >>

Some(x) == <<x>>

\* number of binary digits of a natural number below 2^31
BitLen(n) == Cardinality({k \in 0..30 : Pow2(k) <= n})

\* the w low binary digits of n, most significant first
ToBits(w, n) == [i \in 1..w |-> (n \div Pow2(w - i)) % 2]

\* binary digits of a natural number, most significant first, << >> for 0
NatBits(n) == ToBits(BitLen(n), n)

\* the 13 bits of b after position o, as a number
Chunk13(b, o) ==
  b[o + 1] * 4096 + b[o + 2] * 2048 + b[o + 3] * 1024 + b[o + 4] * 512
  + b[o + 5] * 256 + b[o + 6] * 128 + b[o + 7] * 64 + b[o + 8] * 32
  + b[o + 9] * 16 + b[o + 10] * 8 + b[o + 11] * 4 + b[o + 12] * 2 + b[o + 13]

RECURSIVE BitsNat(_)
\* value of a bit string, the value below 2^31
BitsNat(b) ==
  LET p == Rep(0, 39 - Len(b)) \o b
  IN  IF Len(b) <= 13 THEN Chunk13(p, 26)
      ELSE IF Len(b) <= 39
      THEN Chunk13(p, 0) * 67108864 + Chunk13(p, 13) * 8192 + Chunk13(p, 26)
      ELSE BitsNat(SubSeq(b, 1, Len(b) - 13)) * 8192 + Chunk13(b, Len(b) - 13)

\* b + 1 on a fixed-width bit string; all ones wraps to all zeros
IncBits(b) ==
  LET zeros == {i \in DOMAIN b : b[i] = 0}
  IN  IF zeros = {} THEN [i \in DOMAIN b |-> 0]
      ELSE LET p == CHOOSE i \in zeros : \A j \in zeros : j <= i
           IN  [i \in DOMAIN b |-> IF i < p THEN b[i] ELSE IF i = p THEN 1 ELSE 0]

\* the n big-endian bytes of a natural number v < 2^31
BE(n, v) == [i \in 1..n |-> IF n - i > 3 THEN 0 ELSE (v \div (256 ^ (n - i))) % 256]

RECURSIVE FromBE(_)
\* value of a big-endian byte string; the values met here stay below 2^31
FromBE(b) ==
  IF Len(b) = 0 THEN 0
  ELSE IF Len(b) = 1 THEN b[1]
  ELSE IF b[1] = 0 THEN FromBE(Tail(b))
  ELSE b[1] * (256 ^ (Len(b) - 1)) + FromBE(Tail(b))

(***************************************************************************)
(* IEEE-754 binary64, as CPython's float uses it.  A value is              *)
(*   [s |-> sign, e |-> exponent, m |-> 53 bits]   =  (-1)^s * m * 2^e     *)
(* with m[1] = 1, or the zero below.  Every operation rounds to nearest,   *)
(* ties to even, as the hardware does.                                     *)
(***************************************************************************)
MantBits == 53

FZero == [s |-> 0, e |-> 0, m |-> Rep(0, MantBits)]

IsZero(x) == x.m = Rep(0, MantBits)

\* Round a bit string b (b[1] = 1, weight of its last bit 2^e), with a sticky
\* flag for a discarded remainder, to p significant bits.
RoundBitsP(p, sign, b, e, sticky) ==
  LET L == Len(b)
  IN  IF L <= p
      THEN [s |-> sign, e |-> e - (p - L), m |-> b \o Rep(0, p - L)]
      ELSE LET keep  == SubSeq(b, 1, p)
               guard == b[p + 1]
               rest  == sticky \/ \E i \in (p + 2)..L : b[i] = 1
               up    == guard = 1 /\ (rest \/ keep[p] = 1)
               e1    == e + (L - p)
           IN  IF ~up THEN [s |-> sign, e |-> e1, m |-> keep]
               ELSE IF keep = Rep(1, p)
                    THEN [s |-> sign, e |-> e1 + 1, m |-> <<1>> \o Rep(0, p - 1)]
                    ELSE [s |-> sign, e |-> e1, m |-> IncBits(keep)]

RoundBits(sign, b, e, sticky) == RoundBitsP(MantBits, sign, b, e, sticky)

RECURSIVE FracBits(_, _, _, _)
\* acc followed by the next k binary digits of r / d (0 <= r < d < 2^15), and
\* the remainder left; eight digits at a time
FracBits(r, d, k, acc) ==
  IF k = 0 THEN [bits |-> acc, rem |-> r]
  ELSE LET n == Min(k, 8)
       IN  FracBits((r * Pow2(n)) % d, d, k - n,
                    acc \o ToBits(n, (r * Pow2(n)) \div d))

\* number of zero digits that open the binary expansion of r / d, 0 < r < d < 2^15
LeadZeros(r, d) == Cardinality({z \in 1..15 : r * Pow2(z) < d})

\* float(x) / float(d) for integers 0 <= x, 0 < d that floats hold exactly
FDivInt(x, d) ==
  IF x = 0 THEN FZero
  ELSE LET ib == NatBits(x \div d)
           r0 == x % d
       IN  IF ib # << >>
           THEN LET f == FracBits(r0, d, MantBits + 1 - Len(ib), ib)
                IN  RoundBits(0, f.bits, -(MantBits + 1 - Len(ib)), f.rem # 0)
           ELSE LET z  == LeadZeros(r0, d)
                    f  == FracBits(r0 * Pow2(z), d, MantBits + 1, << >>)
                IN  RoundBits(0, f.bits, -(z + MantBits + 1), f.rem # 0)

\* the bits of m * c for a 53-bit significand m and a natural c < 2^17:
\* long multiplication over the leading bit and four 13-bit limbs
MulBits(m, c) ==
  LET t4 == Chunk13(m, 40) * c
      t3 == Chunk13(m, 27) * c + (t4 \div 8192)
      t2 == Chunk13(m, 14) * c + (t3 \div 8192)
      t1 == Chunk13(m, 1) * c + (t2 \div 8192)
      t0 == m[1] * c + (t1 \div 8192)
  IN  NatBits(t0) \o ToBits(13, t1 % 8192) \o ToBits(13, t2 % 8192)
      \o ToBits(13, t3 % 8192) \o ToBits(13, t4 % 8192)

\* x * float(c) for a float x and a small natural c > 0
FMulInt(x, c) ==
  IF IsZero(x) THEN x
  ELSE RoundBits(x.s, MulBits(x.m, c), x.e, FALSE)

\* int(x): truncation toward zero
FTrunc(x) ==
  LET mag == IF IsZero(x) THEN 0
             ELSE IF x.e >= 0 THEN BitsNat(x.m) * Pow2(x.e)
             ELSE IF -x.e >= MantBits THEN 0
             ELSE BitsNat(SubSeq(x.m, 1, MantBits + x.e))
  IN  IF x.s = 1 THEN -mag ELSE mag

FNeg(x) == [x EXCEPT !.s = 1 - x.s]

\* x < y, x <= y on floats
FLess(x, y) ==
  LET mag(u, v) ==   \* |u| < |v|
        IF IsZero(v) THEN FALSE
        ELSE IF IsZero(u) THEN TRUE
        ELSE IF u.e # v.e THEN u.e < v.e
        ELSE \E i \in 1..MantBits :
               /\ u.m[i] < v.m[i]
               /\ \A j \in 1..(i - 1) : u.m[j] = v.m[j]
  IN  IF IsZero(x) /\ IsZero(y) THEN FALSE
      ELSE IF x.s = 1 /\ y.s = 0 THEN TRUE
      ELSE IF x.s = 0 /\ y.s = 1 THEN FALSE
      ELSE IF x.s = 0 THEN mag(x, y) ELSE mag(y, x)

FLeq(x, y) == ~FLess(y, x)

\* the bytes of a bit string, eight bits each
BitsToBytes(bits) ==
  [i \in 1..(Len(bits) \div 8) |->
     bits[8 * i - 7] * 128 + bits[8 * i - 6] * 64 + bits[8 * i - 5] * 32
     + bits[8 * i - 4] * 16 + bits[8 * i - 3] * 8 + bits[8 * i - 2] * 4
     + bits[8 * i - 1] * 2 + bits[8 * i]]

\* struct.pack('!d', x) for zero and normal x
FPack64(x) ==
  IF IsZero(x) THEN <<128 * x.s>> \o Rep(0, 7)
  ELSE BitsToBytes(<<x.s>> \o ToBits(11, x.e + 52 + 1023) \o SubSeq(x.m, 2, MantBits))

\* struct.pack('!f', x) for zero and for x that round into float32's normal
\* range; larger values raise OverflowError
FPack32(x) ==
  IF IsZero(x) THEN Ok(<<128 * x.s>> \o Rep(0, 3))
  ELSE LET r == RoundBitsP(24, x.s, x.m, x.e, FALSE)
       IN  IF r.e + 23 > 127 THEN Raise("OverflowError")
           ELSE Ok(BitsToBytes(<<r.s>> \o ToBits(8, r.e + 23 + 127) \o SubSeq(r.m, 2, 24)))

\* the bits of a byte string, most significant first
BytesToBits(b) == [i \in 1..(8 * Len(b)) |-> (b[((i - 1) \div 8) + 1] \div Pow2(7 - ((i - 1) % 8))) % 2]

\* struct.unpack('!d', b) of eight bytes that hold zero or a normal number
FUnpack64(b) ==
  The({ IF SubSeq(bits, 2, 64) = Rep(0, 63) THEN [FZero EXCEPT !.s = bits[1]]
        ELSE [s |-> bits[1], e |-> BitsNat(SubSeq(bits, 2, 12)) - 1023 - 52,
              m |-> <<1>> \o SubSeq(bits, 13, 64)]
      : bits \in {BytesToBits(b)} })

\* struct.unpack('!f', b) of four bytes that hold zero or a normal number:
\* the float32 as the float it widens to
FUnpack32(b) ==
  The({ IF SubSeq(bits, 2, 32) = Rep(0, 31) THEN [FZero EXCEPT !.s = bits[1]]
        ELSE [s |-> bits[1], e |-> BitsNat(SubSeq(bits, 2, 9)) - 127 - 52,
              m |-> <<1>> \o SubSeq(bits, 10, 32) \o Rep(0, MantBits - 24)]
      : bits \in {BytesToBits(b)} })

\* float(n) for an integer n, |n| < 2^31
FInt(n) ==
  IF n = 0 THEN FZero
  ELSE IF n < 0 THEN RoundBits(1, NatBits(-n), 0, FALSE)
  ELSE RoundBits(0, NatBits(n), 0, FALSE)

(***************************************************************************)
(* hashlib.md5 (RFC 1321).  A 32-bit word is a pair <<high 16 bits, low 16 *)
(* bits>>, so that no intermediate value passes 2^31.                      *)
(***************************************************************************)
Bit(v, k) == (v \div Pow2(k)) % 2

\* x & y for 4-bit x and y
AndTab == [x \in 0..15 |-> [y \in 0..15 |->
             (8 * Bit(x, 3) * Bit(y, 3)) + (4 * Bit(x, 2) * Bit(y, 2))
             + (2 * Bit(x, 1) * Bit(y, 1)) + (Bit(x, 0) * Bit(y, 0))]]

Nib(v, k) == (v \div (16 ^ k)) % 16

\* a 16-bit operation, nibble by nibble through the table tab
Nib16(tab, a, b) ==
  (tab[Nib(a, 3)][Nib(b, 3)] * 4096) + (tab[Nib(a, 2)][Nib(b, 2)] * 256)
  + (tab[Nib(a, 1)][Nib(b, 1)] * 16) + tab[Nib(a, 0)][Nib(b, 0)]

And16(a, b) == Nib16(AndTab, a, b)

WAnd(x, y) == <<And16(x[1], y[1]), And16(x[2], y[2])>>

WNot(x) == <<65535 - x[1], 65535 - x[2]>>

\* x + y - k * a in both halves, a being x & y: this is x | y for k = 1 and
\* x ^ y for k = 2, bit by bit without carries
WFromAnd(x, y, a, k) == <<x[1] + y[1] - (k * a[1]), x[2] + y[2] - (k * a[2])>>

WOr(x, y) == WFromAnd(x, y, WAnd(x, y), 1)

WXor(x, y) == WFromAnd(x, y, WAnd(x, y), 2)

\* addition modulo 2^32
WAdd(x, y) ==
  LET lo == x[2] + y[2]
  IN  <<(x[1] + y[1] + (lo \div 65536)) % 65536, lo % 65536>>

\* rotation to the left by 0 < n < 32 bits
WRotl(x, n) ==
  LET y == IF n >= 16 THEN <<x[2], x[1]>> ELSE x
      k == n % 16
  IN  IF k = 0 THEN y
      ELSE <<((y[1] * Pow2(k)) % 65536) + (y[2] \div Pow2(16 - k)),
             ((y[2] * Pow2(k)) % 65536) + (y[1] \div Pow2(16 - k))>>

\* floor(2^32 * abs(sin(i))) for i = 1..64
MD5_K ==
  <<
     <<55146, 42104>>, <<59591, 46934>>, <<9248, 28891>>, <<49597, 52974>>,
     <<62844, 4015>>, <<18311, 50730>>, <<43056, 17939>>, <<64838, 38145>>,
     <<27008, 39128>>, <<35652, 63407>>, <<65535, 23473>>, <<35164, 55230>>,
     <<27536, 4386>>, <<64920, 29075>>, <<42617, 17294>>, <<18868, 2081>>,
     <<63006, 9570>>, <<49216, 45888>>, <<9822, 23121>>, <<59830, 51114>>,
     <<54831, 4189>>, <<580, 5203>>, <<55457, 59009>>, <<59347, 64456>>,
     <<8673, 52710>>, <<49975, 2006>>, <<62677, 3463>>, <<17754, 5357>>,
     <<43491, 59653>>, <<64751, 41976>>, <<26479, 729>>, <<36138, 19594>>,
     <<65530, 14658>>, <<34673, 63105>>, <<28061, 24866>>, <<64997, 14348>>,
     <<42174, 59972>>, <<19422, 53161>>, <<63163, 19296>>, <<48831, 48240>>,
     <<10395, 32454>>, <<60065, 10234>>, <<54511, 12421>>, <<1160, 7429>>,
     <<55764, 53305>>, <<59099, 39397>>, <<8098, 31992>>, <<50348, 22117>>,
     <<62505, 8772>>, <<17194, 65431>>, <<43924, 9127>>, <<64659, 41017>>,
     <<25947, 22979>>, <<36620, 52370>>, <<65519, 62589>>, <<34180, 24017>>,
     <<28584, 32335>>, <<65068, 59104>>, <<41729, 17172>>, <<19976, 4513>>,
     <<63315, 32386>>, <<48442, 62005>>, <<10967, 53947>>, <<60294, 54161>> >>

\* per-step shift amounts
MD5_S ==
  <<
     7, 12, 17, 22, 7, 12, 17, 22, 7, 12, 17, 22, 7, 12, 17, 22,
     5, 9, 14, 20, 5, 9, 14, 20, 5, 9, 14, 20, 5, 9, 14, 20,
     4, 11, 16, 23, 4, 11, 16, 23, 4, 11, 16, 23, 4, 11, 16, 23,
     6, 10, 15, 21, 6, 10, 15, 21, 6, 10, 15, 21, 6, 10, 15, 21 >>

MD5_IV == [a |-> <<26437, 8961>>, b |-> <<61389, 43913>>, c |-> <<39098, 56574>>, d |-> <<4146, 21622>>]

\* the message followed by 0x80, zeros up to 56 modulo 64, and the bit
\* length as a 64-bit little-endian number (messages here are below 2^20 bytes)
MD5Pad(msg) ==
  LET n    == Len(msg)
      z    == (119 - (n % 64)) % 64
      bits == n * 8
  IN  msg \o <<128>> \o Rep(0, z)
      \o <<bits % 256, (bits \div 256) % 256, (bits \div 65536) % 256, 0, 0, 0, 0, 0>>

\* the g-th little-endian word (g = 0..15) of the block that starts after
\* byte offset off
MD5Word(p, off, g) ==
  LET i == off + 4 * g
  IN  <<(p[i + 4] * 256) + p[i + 3], (p[i + 2] * 256) + p[i + 1]>>

\* (x & y) | (~x & z)
MD5Choose(x, y, z) == WOr(WAnd(x, y), WAnd(WNot(x), z))

\* F = (b & c) | (~b & d), G = (d & b) | (~d & c), H = b ^ c ^ d,
\* I = c ^ (b | ~d)
MD5F(i, b, c, d) ==
  IF i < 32
  THEN MD5Choose(IF i < 16 THEN b ELSE d, IF i < 16 THEN c ELSE b, IF i < 16 THEN d ELSE c)
  ELSE WXor(IF i < 48 THEN WXor(b, c) ELSE WOr(b, WNot(d)), IF i < 48 THEN d ELSE c)

MD5G(i) ==
  IF i < 16 THEN i
  ELSE IF i < 32 THEN (5 * i + 1) % 16
  ELSE IF i < 48 THEN (3 * i + 5) % 16
  ELSE (7 * i) % 16

\* one of the 64 steps, i = 0..63
MD5Step(st, p, off, i) ==
  LET f == WAdd(WAdd(WAdd(MD5F(i, st.b, st.c, st.d), st.a), MD5_K[i + 1]),
                MD5Word(p, off, MD5G(i)))
  IN  [a |-> st.d, b |-> WAdd(st.b, WRotl(f, MD5_S[i + 1])), c |-> st.b, d |-> st.c]

RECURSIVE MD5Steps(_, _, _, _, _)
\* steps lo..hi in order
MD5Steps(st, p, off, lo, hi) ==
  IF lo = hi THEN MD5Step(st, p, off, lo)
  ELSE LET mid == (lo + hi) \div 2
           left == MD5Steps(st, p, off, lo, mid)
       IN  Strict(left, MD5Steps(left, p, off, mid + 1, hi))

\* the four registers added word by word
MD5Sum(st, r) ==
  [a |-> WAdd(st.a, r.a), b |-> WAdd(st.b, r.b),
   c |-> WAdd(st.c, r.c), d |-> WAdd(st.d, r.d)]

MD5Block(st, p, off) == MD5Sum(st, MD5Steps(st, p, off, 0, 63))

RECURSIVE MD5Blocks(_, _, _, _)
\* blocks lo..hi (numbered from 0) in order
MD5Blocks(st, p, lo, hi) ==
  IF lo = hi THEN MD5Block(st, p, 64 * lo)
  ELSE LET mid == (lo + hi) \div 2
           left == MD5Blocks(st, p, lo, mid)
       IN  Strict(left, MD5Blocks(left, p, mid + 1, hi))

WordLE(x) == <<x[2] % 256, x[2] \div 256, x[1] % 256, x[1] \div 256>>

\* hashlib.md5(msg).digest(): 16 bytes
MD5Bytes(r) == WordLE(r.a) \o WordLE(r.b) \o WordLE(r.c) \o WordLE(r.d)

MD5Run(p) == MD5Bytes(MD5Blocks(MD5_IV, p, 0, (Len(p) \div 64) - 1))

MD5Digest(msg) == MD5Run(MD5Pad(msg))

(***************************************************************************)
(* str.encode('utf-8') and bytes.decode('utf-8'), strict.  A string is a   *)
(* sequence of code points.                                                *)
(***************************************************************************)
IsSurrogate(cp) == cp >= 55296 /\ cp <= 57343

Utf8Char(cp) ==
  IF cp < 128 THEN <<cp>>
  ELSE IF cp < 2048 THEN <<192 + (cp \div 64), 128 + (cp % 64)>>
  ELSE IF cp < 65536
       THEN <<224 + (cp \div 4096), 128 + ((cp \div 64) % 64), 128 + (cp % 64)>>
  ELSE <<240 + (cp \div 262144), 128 + ((cp \div 4096) % 64),
         128 + ((cp \div 64) % 64), 128 + (cp % 64)>>

RECURSIVE Utf8Join(_, _, _)
\* the encodings of characters lo..hi of str, joined
Utf8Join(str, lo, hi) ==
  IF lo > hi THEN << >>
  ELSE IF lo = hi THEN Utf8Char(str[lo])
  ELSE LET mid == (lo + hi) \div 2
       IN  Utf8Join(str, lo, mid) \o Utf8Join(str, mid + 1, hi)

Utf8Encode(str) ==
  IF \E i \in DOMAIN str : IsSurrogate(str[i]) THEN Raise("UnicodeEncodeError")
  ELSE Ok(Utf8Join(str, 1, Len(str)))

IsCont(byte) == byte >= 128 /\ byte < 192

\* number of bytes the sequence opened by a lead byte has, 0 for no lead byte
Utf8Need(byte) ==
  IF byte < 128 THEN 1
  ELSE IF byte >= 194 /\ byte < 224 THEN 2
  ELSE IF byte >= 224 /\ byte < 240 THEN 3
  ELSE IF byte >= 240 /\ byte < 245 THEN 4
  ELSE 0

\* the code point of the sequence that starts at position i
Utf8At(b, i) ==
  LET n == Utf8Need(b[i])
  IN  IF n = 1 THEN b[i]
      ELSE IF n = 2 THEN (b[i] - 192) * 64 + (b[i + 1] - 128)
      ELSE IF n = 3
           THEN (b[i] - 224) * 4096 + (b[i + 1] - 128) * 64 + (b[i + 2] - 128)
      ELSE (b[i] - 240) * 262144 + (b[i + 1] - 128) * 4096
           + (b[i + 2] - 128) * 64 + (b[i + 3] - 128)

\* a well-formed sequence starts at i and the next one, or the end, follows it
Utf8GoodAt(b, i) ==
  LET n == Utf8Need(b[i])
  IN  /\ n > 0
      /\ i + n - 1 <= Len(b)
      /\ \A j \in (i + 1)..(i + n - 1) : IsCont(b[j])
      /\ (i + n <= Len(b) => ~IsCont(b[i + n]))
      /\ (n = 3 => Utf8At(b, i) >= 2048 /\ ~IsSurrogate(Utf8At(b, i)))
      /\ (n = 4 => Utf8At(b, i) >= 65536 /\ Utf8At(b, i) <= 1114111)

Utf8Decode(b) ==
  LET starts == {i \in DOMAIN b : ~IsCont(b[i])}
      nth(k) == CHOOSE i \in starts : Cardinality({j \in starts : j <= i}) = k
  IN  IF (Len(b) > 0 /\ IsCont(b[1])) \/ \E i \in starts : ~Utf8GoodAt(b, i)
      THEN Raise("UnicodeDecodeError")
      ELSE Ok([k \in 1..Cardinality(starts) |-> Utf8At(b, nth(k))])

(***************************************************************************)
(* struct.pack / struct.unpack of unsigned big-endian fields               *)
(***************************************************************************)
\* struct.pack of an n-byte unsigned field ('!B', '!H', '!I', '!Q')
PackU(n, v) ==
  IF v < 0 \/ (n < 4 /\ v >= 256 ^ n) THEN Raise("struct.error")
  ELSE Ok(BE(n, v))

\* struct.unpack of an n-byte unsigned field: the buffer must have n bytes
UnpackU(n, b) ==
  IF Len(b) # n THEN Raise("struct.error") ELSE Ok(FromBE(b))

\* the '6s' field: cut to six bytes, or filled up with zero bytes
Pack6s(b) == [i \in 1..6 |-> IF i <= Len(b) THEN b[i] ELSE 0]

(***************************************************************************)
(* protocol.py: constants                                                  *)
(***************************************************************************)
BCMP_PROTOCOL_VERSION == 1

BCMP_HEADER_MAGIC == 188

MAX_PAYLOAD_SIZE == 1400

MAX_TOPIC_NAME == 64

header_size == 22

\* MessageType: HEARTBEAT = 0 .. RESPONSE = 10
MessageType == 0..10

SENSOR_DATA == 1

(***************************************************************************)
(* protocol.py: BristlemouthTopic                                          *)
(***************************************************************************)
\* a constructor that measures the name in bytes of UTF-8
Topic_post_init_utf8_length(name, version, node_id) ==
  IF Len(name) = 0 THEN Raise("ValueError: Topic name cannot be empty")
  ELSE IF ~Utf8Encode(name).ok \/ Len(Utf8Encode(name).val) > MAX_TOPIC_NAME
       THEN Raise("ValueError: Topic name cannot exceed 64 characters")
  ELSE Ok([name |-> name, version |-> version, node_id |-> node_id])

\* __post_init__ of a topic with these fields
Topic_post_init(name, version, node_id) ==
  IF Len(name) = 0 THEN Raise("ValueError: Topic name cannot be empty")
  ELSE IF Len(name) > MAX_TOPIC_NAME
       THEN Raise("ValueError: Topic name cannot exceed 64 characters")
  ELSE Ok([name |-> name, version |-> version, node_id |-> node_id])

Topic_to_bytes(topic) ==
  The({ IF ~name_bytes.ok THEN name_bytes
        ELSE IF ~PackU(1, topic.version).ok \/ ~PackU(2, Len(name_bytes.val)).ok
             THEN Raise("struct.error")
        ELSE Ok(PackU(1, topic.version).val \o PackU(2, Len(name_bytes.val)).val
                \o name_bytes.val)
      : name_bytes \in {Utf8Encode(topic.name)} })

\* a decoder that leaves the version at the constructor's default
Topic_from_bytes_default_version(data) ==
  IF Len(data) = 0 THEN Raise("IndexError")
  ELSE LET name_len == UnpackU(2, Slice(data, 1, 3))
       IN  IF ~name_len.ok THEN name_len
           ELSE The({ IF ~name.ok THEN name ELSE Topic_post_init(name.val, 1, None)
                    : name \in {Utf8Decode(Slice(data, 3, 3 + name_len.val))} })

Topic_from_bytes(data) ==
  IF Len(data) = 0 THEN Raise("IndexError")
  ELSE LET version  == data[1]
           name_len == UnpackU(2, Slice(data, 1, 3))
       IN  IF ~name_len.ok THEN name_len
           ELSE The({ IF ~name.ok THEN name ELSE Topic_post_init(name.val, version, None)
                    : name \in {Utf8Decode(Slice(data, 3, 3 + name_len.val))} })

(***************************************************************************)
(* protocol.py: BristlemouthMessage                                        *)
(***************************************************************************)
\* __post_init__; now is the clock reading used when no timestamp is given
Message_post_init(topic, payload, message_type, version, sequence_number, timestamp, source_node_id, now) ==
  IF Len(payload) > MAX_PAYLOAD_SIZE
  THEN Raise("ValueError: Payload size exceeds maximum")
  ELSE Ok([topic |-> topic, payload |-> payload, message_type |-> message_type,
           version |-> version, sequence_number |-> sequence_number,
           timestamp |-> IF timestamp = None THEN now ELSE timestamp[1],
           source_node_id |-> source_node_id])

\* int(self.timestamp * 1000)
TimestampMillis(timestamp) == FTrunc(FMulInt(timestamp, 1000))

pack_without_checksum(msg) ==
  LET source_id == IF msg.source_node_id = None \/ msg.source_node_id = Some(<< >>)
                   THEN Rep(0, 6) ELSE msg.source_node_id[1]
      version     == PackU(1, msg.version)
      msg_type    == PackU(2, msg.message_type)
      seq_num     == PackU(4, msg.sequence_number)
      payload_len == PackU(2, Len(msg.payload))
  IN  The({ IF ~topic_bytes.ok THEN topic_bytes
            ELSE IF ~version.ok \/ ~msg_type.ok \/ ~seq_num.ok
                    \/ ~PackU(2, Len(topic_bytes.val)).ok \/ ~payload_len.ok
                 THEN Raise("struct.error")
            ELSE The({ IF ~millis.ok THEN millis
                       ELSE Ok(<<BCMP_HEADER_MAGIC>> \o version.val \o msg_type.val
                               \o seq_num.val \o millis.val \o Pack6s(source_id)
                               \o PackU(2, Len(topic_bytes.val)).val \o topic_bytes.val
                               \o payload_len.val \o msg.payload)
                     : millis \in {PackU(8, TimestampMillis(msg.timestamp))} })
          : topic_bytes \in {Topic_to_bytes(msg.topic)} })

calculate_checksum(msg) ==
  The({ IF ~data.ok THEN data ELSE Ok(SubSeq(MD5Digest(data.val), 1, 4))
      : data \in {pack_without_checksum(msg)} })

Message_to_bytes(msg) ==
  The({ IF ~data.ok THEN data
        ELSE IF ~checksum.ok THEN checksum
        ELSE Ok(data.val \o checksum.val)
      : data \in {pack_without_checksum(msg)}, checksum \in {calculate_checksum(msg)} })

\* from_bytes after the magic check: the fields read from the buffer, the
\* message built from them and the checksum received
Message_fields(data) ==
  LET version      == data[2]
      msg_type     == FromBE(Slice(data, 2, 4))
      seq_num      == FromBE(Slice(data, 4, 8))
      timestamp_ms == FromBE(Slice(data, 8, 16))
      source_id    == Slice(data, 16, 22)
      topic_len    == UnpackU(2, Slice(data, header_size, header_size + 2))
  IN
  IF ~topic_len.ok THEN topic_len
  ELSE
  LET off1  == header_size + 2
      off2  == off1 + topic_len.val
  IN
  The({
  IF ~topic.ok THEN topic
  ELSE
  LET payload_len == UnpackU(2, Slice(data, off2, off2 + 2)) IN
  IF ~payload_len.ok THEN payload_len
  ELSE
  LET off3    == off2 + 2
      payload == Slice(data, off3, off3 + payload_len.val)
      off4    == off3 + payload_len.val
      received_checksum == Slice(data, off4, off4 + 4)
  IN
  IF msg_type \notin MessageType THEN Raise("ValueError: not a valid MessageType")
  ELSE
  The({ IF ~msg.ok THEN msg
        ELSE Ok([msg |-> msg.val, received_checksum |-> received_checksum])
      : msg \in {Message_post_init(topic.val, payload, msg_type, version, seq_num,
                                   Some(FDivInt(timestamp_ms, 1000)), Some(source_id),
                                   FZero)} })
  : topic \in {Topic_from_bytes(Slice(data, off1, off1 + topic_len.val))} })

\* the end of from_bytes: the checksum of the rebuilt message against the
\* one received
Message_verify(f) ==
  The({ IF ~expected_checksum.ok THEN expected_checksum
        ELSE IF f.received_checksum # expected_checksum.val
             THEN Raise("ValueError: Checksum mismatch")
        ELSE Ok(f.msg)
      : expected_checksum \in {calculate_checksum(f.msg)} })

\* a decoder that looks at the magic byte only after the rest was read
Message_from_bytes_magic_last(data) ==
  IF Len(data) < header_size THEN Raise("ValueError: Message too short")
  ELSE The({ IF ~f.ok THEN f
             ELSE IF data[1] # BCMP_HEADER_MAGIC
                  THEN Raise("ValueError: Invalid magic byte")
             ELSE Message_verify(f.val)
           : f \in {Message_fields(data)} })

Message_from_bytes(data) ==
  IF Len(data) < header_size THEN Raise("ValueError: Message too short")
  ELSE IF data[1] # BCMP_HEADER_MAGIC THEN Raise("ValueError: Invalid magic byte")
  ELSE The({ IF ~f.ok THEN f ELSE Message_verify(f.val) : f \in {Message_fields(data)} })

(***************************************************************************)
(* protocol.py: SpotterTopics (the names as code points)                   *)
(***************************************************************************)
\* "spotter/sensor/temperature"
TEMPERATURE == [name |-> <<115, 112, 111, 116, 116, 101, 114, 47, 115, 101, 110, 115, 111, 114, 47, 116, 101, 109, 112, 101, 114, 97, 116, 117, 114, 101>>,
                version |-> 1, node_id |-> None]

\* "spotter/sensor/pressure"
PRESSURE == [name |-> <<115, 112, 111, 116, 116, 101, 114, 47, 115, 101, 110, 115, 111, 114, 47, 112, 114, 101, 115, 115, 117, 114, 101>>,
             version |-> 1, node_id |-> None]

\* "spotter/transmit-data"
TRANSMIT_DATA == [name |-> <<115, 112, 111, 116, 116, 101, 114, 47, 116, 114, 97, 110, 115, 109, 105, 116, 45, 100, 97, 116, 97>>,
                  version |-> 1, node_id |-> None]

\* "spotter/status"
STATUS == [name |-> <<115, 112, 111, 116, 116, 101, 114, 47, 115, 116, 97, 116, 117, 115>>,
           version |-> 1, node_id |-> None]

\* "spotter/sensor/salinity"
SALINITY == [name |-> <<115, 112, 111, 116, 116, 101, 114, 47, 115, 101, 110, 115, 111, 114, 47, 115, 97, 108, 105, 110, 105, 116, 121>>,
             version |-> 1, node_id |-> None]

\* "spotter/sensor/turbidity"
TURBIDITY == [name |-> <<115, 112, 111, 116, 116, 101, 114, 47, 115, 101, 110, 115, 111, 114, 47, 116, 117, 114, 98, 105, 100, 105, 116, 121>>,
              version |-> 1, node_id |-> None]

\* "spotter/sensor/current"
CURRENT == [name |-> <<115, 112, 111, 116, 116, 101, 114, 47, 115, 101, 110, 115, 111, 114, 47, 99, 117, 114, 114, 101, 110, 116>>,
            version |-> 1, node_id |-> None]

(***************************************************************************)
(* time.time(): the clock readings the model draws from                    *)
(***************************************************************************)
ClockReadings == {FDivInt(12345, 10)}

(***************************************************************************)
(* sensors.py: SensorReading and BaseSensor.wrap_reading                   *)
(***************************************************************************)
SensorReading_post_init(value, unit, timestamp, quality, sensor_id, depth_m) ==
  IF ~(0 <= quality /\ quality <= 100)
  THEN Raise("ValueError: Quality must be between 0 and 100")
  ELSE Ok([value |-> value, unit |-> unit, timestamp |-> timestamp,
           quality |-> quality, sensor_id |-> sensor_id, depth_m |-> depth_m])

SensorReading_to_bytes(reading) ==
  LET depth == IF reading.depth_m # None THEN reading.depth_m[1] ELSE FNeg(FInt(1))
      q     == PackU(1, reading.quality)
  IN  The({ IF ~ms.ok \/ ~q.ok THEN Raise("struct.error")
            ELSE The({ IF ~d.ok THEN d
                       ELSE Ok(FPack64(reading.value) \o ms.val \o q.val \o d.val)
                     : d \in {FPack32(depth)} })
          : ms \in {PackU(8, TimestampMillis(reading.timestamp))} })

\* a from_bytes that takes a depth of 0.0 for the sentinel as well
SensorReading_from_bytes_positive_depth(data, unit) ==
  IF Len(data) < 21 THEN Raise("struct.error")
  ELSE The({ SensorReading_post_init(FUnpack64(SubSeq(data, 1, 8)), unit,
                                     FDivInt(UnpackU(8, SubSeq(data, 9, 16)).val, 1000),
                                     data[17], None,
                                     IF FLess(FZero, depth) THEN Some(depth) ELSE None)
           : depth \in {FUnpack32(SubSeq(data, 18, 21))} })

\* SensorReading.from_bytes: struct.unpack('!dQBf', data[:21])
SensorReading_from_bytes(data, unit) ==
  IF Len(data) < 21 THEN Raise("struct.error")
  ELSE The({ SensorReading_post_init(FUnpack64(SubSeq(data, 1, 8)), unit,
                                     FDivInt(UnpackU(8, SubSeq(data, 9, 16)).val, 1000),
                                     data[17], None,
                                     IF FLeq(FZero, depth) THEN Some(depth) ELSE None)
           : depth \in {FUnpack32(SubSeq(data, 18, 21))} })

\* The sensor objects: a TemperatureSensor(), a PressureSensor(), a second
\* TemperatureSensor(), a CurrentMeterSensor(), a SalinitySensor() and a
\* TurbiditySensor(), with their default ids and bounds.  A sensor object is known by its position in this list.
SensorObjects ==
  <<[sensor_id |-> "temp_sensor_01", topic |-> TEMPERATURE, default_unit |-> "CELSIUS",
     min_value |-> FNeg(FInt(5)), max_value |-> FInt(50)],
    [sensor_id |-> "pressure_sensor_01", topic |-> PRESSURE, default_unit |-> "DECIBAR",
     min_value |-> FZero, max_value |-> FInt(600)],
    [sensor_id |-> "temp_sensor_01", topic |-> TEMPERATURE, default_unit |-> "CELSIUS",
     min_value |-> FNeg(FInt(5)), max_value |-> FInt(50)],
    [sensor_id |-> "current_sensor_01", topic |-> CURRENT,
     default_unit |-> "METERS_PER_SECOND", min_value |-> FZero, max_value |-> FInt(5)],
    [sensor_id |-> "salinity_sensor_01", topic |-> SALINITY, default_unit |-> "PSU",
     min_value |-> FZero, max_value |-> FInt(45)],
    [sensor_id |-> "turbidity_sensor_01", topic |-> TURBIDITY, default_unit |-> "NTU",
     min_value |-> FZero, max_value |-> FInt(4000)]>>

\* BaseSensor.__init__: the mutable part of a sensor
Sensor_init == [sequence_number |-> 0, readings |-> << >>]

\* CurrentMeterSensor.__init__: a sensor with a log of (speed, direction)
CurrentMeter_init ==
  [sequence_number |-> 0, readings |-> << >>, direction_readings |-> << >>]

\* the mutable part of every sensor object after construction
Sensors_init ==
  [o \in DOMAIN SensorObjects |->
     IF SensorObjects[o].sensor_id = "current_sensor_01" THEN CurrentMeter_init
     ELSE Sensor_init]

\* validate_reading of sensor object o (the values of the model are floats)
validate_reading(o, value) ==
  IF FLess(value, SensorObjects[o].min_value) THEN <<FALSE, "below minimum">>
  ELSE IF FLess(SensorObjects[o].max_value, value) THEN <<FALSE, "above maximum">>
  ELSE <<TRUE, "Valid">>

\* the reading create_reading builds: unit, timestamp and depth_m are
\* optional, and a timestamp of 0.0 is taken for a missing one
new_reading(o, value, unit, timestamp, quality, depth_m, now) ==
  SensorReading_post_init(value,
                          IF unit = None THEN SensorObjects[o].default_unit ELSE unit[1],
                          IF timestamp = None \/ IsZero(timestamp[1]) THEN now
                          ELSE timestamp[1],
                          quality, Some(SensorObjects[o].sensor_id), depth_m)

\* a create_reading that turns away a value equal to a bound
create_reading_exclusive_bounds(o, st, value, unit, timestamp, quality, depth_m, now) ==
  IF ~FLess(SensorObjects[o].min_value, value) \/ ~FLess(value, SensorObjects[o].max_value)
  THEN [st |-> st, ret |-> Raise("ValueError: Invalid reading")]
  ELSE The({ IF ~reading.ok THEN [st |-> st, ret |-> reading]
             ELSE [st  |-> [st EXCEPT !.readings = Append(@, reading.val)],
                   ret |-> reading]
           : reading \in {new_reading(o, value, unit, timestamp, quality, depth_m, now)} })

\* create_reading of sensor object o whose mutable part is st
create_reading(o, st, value, unit, timestamp, quality, depth_m, now) ==
  IF ~validate_reading(o, value)[1]
  THEN [st |-> st, ret |-> Raise("ValueError: Invalid reading")]
  ELSE The({ IF ~reading.ok THEN [st |-> st, ret |-> reading]
             ELSE [st  |-> [st EXCEPT !.readings = Append(@, reading.val)],
                   ret |-> reading]
           : reading \in {new_reading(o, value, unit, timestamp, quality, depth_m, now)} })

\* wrap_reading of sensor object o whose mutable part is st
wrap_reading(o, st, reading, now) ==
  The({ IF ~payload.ok
        THEN [st |-> st, ret |-> payload]
        ELSE [st  |-> [st EXCEPT !.sequence_number = st.sequence_number + 1],
              ret |-> Message_post_init(SensorObjects[o].topic, payload.val, SENSOR_DATA,
                                        BCMP_PROTOCOL_VERSION, st.sequence_number + 1,
                                        Some(reading.timestamp), None, now)]
      : payload \in {SensorReading_to_bytes(reading)} })

\* a create_current_reading that logs the pair before the speed is validated
create_current_reading_log_first(o, st, speed_ms, direction_deg, timestamp, quality, depth_m, now) ==
  IF ~(FLeq(FZero, direction_deg) /\ FLeq(direction_deg, FInt(360)))
  THEN [st |-> st, ret |-> Raise("ValueError: Direction must be between 0 and 360 degrees")]
  ELSE The({ [st  |-> [out.st EXCEPT !.direction_readings =
                                       Append(@, <<speed_ms, direction_deg>>)],
              ret |-> IF out.ret.ok THEN Ok(<<out.ret.val, direction_deg>>) ELSE out.ret]
           : out \in {create_reading(o, st, speed_ms, None, timestamp, quality,
                                     depth_m, now)} })

\* CurrentMeterSensor.create_current_reading
create_current_reading(o, st, speed_ms, direction_deg, timestamp, quality, depth_m, now) ==
  IF ~(FLeq(FZero, direction_deg) /\ FLeq(direction_deg, FInt(360)))
  THEN [st |-> st, ret |-> Raise("ValueError: Direction must be between 0 and 360 degrees")]
  ELSE The({ IF ~out.ret.ok THEN out
             ELSE [st  |-> [out.st EXCEPT !.direction_readings =
                                            Append(@, <<speed_ms, direction_deg>>)],
                   ret |-> Ok(<<out.ret.val, direction_deg>>)]
           : out \in {create_reading(o, st, speed_ms, None, timestamp, quality,
                                     depth_m, now)} })

\* a wrap_current_reading that stamps without counting
wrap_current_reading_no_count(o, st, reading, direction_deg, now) ==
  [st  |-> st,
   ret |-> Message_post_init(SensorObjects[o].topic, << >>, SENSOR_DATA,
                             BCMP_PROTOCOL_VERSION, st.sequence_number,
                             Some(reading.timestamp), None, now)]

\* CurrentMeterSensor.wrap_current_reading: the payload is the reading
\* followed by the direction as a float32
wrap_current_reading(o, st, reading, direction_deg, now) ==
  The({ IF ~head.ok THEN [st |-> st, ret |-> head]
        ELSE IF ~direction.ok THEN [st |-> st, ret |-> direction]
        ELSE [st  |-> [st EXCEPT !.sequence_number = st.sequence_number + 1],
              ret |-> Message_post_init(SensorObjects[o].topic,
                                        head.val \o direction.val, SENSOR_DATA,
                                        BCMP_PROTOCOL_VERSION, st.sequence_number + 1,
                                        Some(reading.timestamp), None, now)]
      : head \in {SensorReading_to_bytes(reading)}, direction \in {FPack32(direction_deg)} })

(***************************************************************************)
(* spotter.py: SpotterBuoyClient                                           *)
(***************************************************************************)
TransmissionMode == {"satellite", "cellular", "hybrid", "local"}

ConnectionState == {"disconnected", "connecting", "connected", "error"}

\* Listeners are callables of the caller.  "rec1" and "rec2" return normally,
\* "boom" raises; every invocation is recorded.
Listeners == {"rec1", "rec2", "boom"}

ListenerRaises(l) == l = "boom"

\* the callbacks called last registered first
Invoke_reversed(cbs, arg) ==
  [calls |-> [i \in 1..Len(cbs) |-> <<cbs[Len(cbs) + 1 - i], arg>>], raised |-> FALSE]

\* a loop that catches what a callback raises and goes on to the next one
Invoke_isolated(cbs, arg) ==
  [calls |-> [i \in 1..Len(cbs) |-> <<cbs[i], arg>>], raised |-> FALSE]

\* for callback in cbs: callback(arg)   -- the calls made, and whether one raised
Invoke(cbs, arg) ==
  LET bad == {i \in DOMAIN cbs : ListenerRaises(cbs[i])}
      n   == IF bad = {} THEN Len(cbs) ELSE CHOOSE i \in bad : \A j \in bad : i <= j
  IN  [calls |-> [i \in 1..n |-> <<cbs[i], arg>>], raised |-> bad # {}]

\* the device_id the client is constructed with: "SPOT-1"
DeviceId == <<83, 80, 79, 84, 45, 49>>

\* SpotterBuoyClient.__init__ with this configuration
Client_init(config) ==
  [device_id |-> DeviceId, config |-> config, sensors |-> << >>, message_queue |-> << >>,
   transmission_history |-> << >>, state |-> "disconnected", sequence_number |-> 0,
   callbacks |-> [on_transmit |-> << >>, on_error |-> << >>, on_state_change |-> << >>]]

\* a deque that never evicts
deque_append_unbounded(q, maxlen, x) == Append(q, x)

\* a full deque that turns the new element away
deque_append_drop_new(q, maxlen, x) ==
  IF Len(q) >= maxlen THEN q ELSE Append(q, x)

\* deque.append on a deque made with this maxlen
deque_append(q, maxlen, x) ==
  IF maxlen = 0 THEN q
  ELSE IF Len(q) = maxlen THEN Append(Tail(q), x)
  ELSE Append(q, x)

\* Every method gives [c |-> the client afterwards, ret |-> Ok(value) or
\* Raise(exception), calls |-> the listener calls made].
Outcome(c, ret, calls) == [c |-> c, ret |-> ret, calls |-> calls]

\* a setter that notifies on every assignment
set_state_always_notifies(c, new_state) ==
  LET n == Invoke(c.callbacks.on_state_change, <<c.state, new_state>>)
  IN  Outcome([c EXCEPT !.state = new_state],
              IF n.raised THEN Raise("ListenerError") ELSE Ok(None), n.calls)

\* the state property's setter
set_state(c, new_state) ==
  LET old_state == c.state
      c1        == [c EXCEPT !.state = new_state]
  IN  IF old_state # new_state
      THEN LET n == Invoke(c.callbacks.on_state_change, <<old_state, new_state>>)
           IN  Outcome(c1, IF n.raised THEN Raise("ListenerError") ELSE Ok(None), n.calls)
      ELSE Outcome(c1, Ok(None), << >>)

\* Listeners that assign the state from inside their callback: "chain"
\* answers the notification of "connecting" with client.state = "connected",
\* "reset" answers the notification of "error" with client.state =
\* "disconnected".
StateListeners == Listeners \cup {"chain", "reset"}

ListenerAssigns(l, new_state) ==
  \/ l = "chain" /\ new_state = "connecting"
  \/ l = "reset" /\ new_state = "error"

ListenerTarget(l) == IF l = "chain" THEN "connected" ELSE "disconnected"

RECURSIVE set_state_from(_, _), notify_state_change(_, _, _, _)

\* the setter's loop from callback i on, with callbacks that may come back
\* into the setter: the client afterwards, the calls made in the order they
\* began, and whether one raised
notify_state_change(c, i, old_state, new_state) ==
  IF i > Len(c.callbacks.on_state_change) THEN [c |-> c, calls |-> << >>, raised |-> FALSE]
  ELSE
  The({
    IF ListenerRaises(l) THEN [c |-> c, calls |-> <<<<l, <<old_state, new_state>>>>>>, raised |-> TRUE]
    ELSE
    The({
      IF ~inner.ret.ok
      THEN [c |-> inner.c, calls |-> <<<<l, <<old_state, new_state>>>>>> \o inner.calls,
            raised |-> TRUE]
      ELSE
      The({ [c |-> rest.c,
             calls |-> <<<<l, <<old_state, new_state>>>>>> \o inner.calls \o rest.calls,
             raised |-> rest.raised]
          : rest \in {notify_state_change(inner.c, i + 1, old_state, new_state)} })
    : inner \in {IF ListenerAssigns(l, new_state) THEN set_state_from(c, ListenerTarget(l))
                 ELSE Outcome(c, Ok(None), << >>)} })
  : l \in {c.callbacks.on_state_change[i]} })

\* the state property's setter, for callbacks that may assign the state
set_state_from(c, new_state) ==
  LET old_state == c.state
      c1        == [c EXCEPT !.state = new_state]
  IN  IF old_state # new_state
      THEN The({ Outcome(n.c, IF n.raised THEN Raise("ListenerError") ELSE Ok(None), n.calls)
               : n \in {notify_state_change(c1, 1, old_state, new_state)} })
      ELSE Outcome(c1, Ok(None), << >>)

\* queue_reading, given the outcome w of sensor.wrap_reading(reading)
queue_reading(c, w) ==
  IF ~w.ret.ok THEN Outcome(c, w.ret, << >>)
  ELSE Outcome([c EXCEPT !.message_queue =
                   deque_append(c.message_queue, c.config.max_queue_size, w.ret.val)],
               w.ret, << >>)

queue_message(c, message) ==
  Outcome([c EXCEPT !.message_queue =
              deque_append(c.message_queue, c.config.max_queue_size, message)],
          Ok(None), << >>)

\* a queue_raw_data that reports a failure to the error listeners
queue_raw_data_reports(c, topic, data, message_type, now) ==
  LET c1      == [c EXCEPT !.sequence_number = c.sequence_number + 1]
      message == Message_post_init(topic, data, message_type, BCMP_PROTOCOL_VERSION,
                                   c1.sequence_number, None, None, now)
  IN  IF ~message.ok
      THEN Outcome(c1, message, Invoke(c.callbacks.on_error, message.err).calls)
      ELSE Outcome([c1 EXCEPT !.message_queue =
                       deque_append(c1.message_queue, c.config.max_queue_size, message.val)],
                   message, << >>)

queue_raw_data(c, topic, data, message_type, now) ==
  LET c1      == [c EXCEPT !.sequence_number = c.sequence_number + 1]
      message == Message_post_init(topic, data, message_type, BCMP_PROTOCOL_VERSION,
                                   c1.sequence_number, None, None, now)
  IN  IF ~message.ok THEN Outcome(c1, message, << >>)
      ELSE Outcome([c1 EXCEPT !.message_queue =
                       deque_append(c1.message_queue, c.config.max_queue_size, message.val)],
                   message, << >>)

\* the code points of the sensor ids and of the enum values
Chars(s) ==
  CASE s = "temp_sensor_01" -> <<116, 101, 109, 112, 95, 115, 101, 110, 115, 111, 114, 95, 48, 49>>
    [] s = "pressure_sensor_01" -> <<112, 114, 101, 115, 115, 117, 114, 101, 95, 115, 101, 110, 115, 111, 114, 95, 48, 49>>
    [] s = "salinity_sensor_01" -> <<115, 97, 108, 105, 110, 105, 116, 121, 95, 115, 101, 110, 115, 111, 114, 95, 48, 49>>
    [] s = "turbidity_sensor_01" -> <<116, 117, 114, 98, 105, 100, 105, 116, 121, 95, 115, 101, 110, 115, 111, 114, 95, 48, 49>>
    [] s = "current_sensor_01" -> <<99, 117, 114, 114, 101, 110, 116, 95, 115, 101, 110, 115, 111, 114, 95, 48, 49>>
    [] s = "satellite" -> <<115, 97, 116, 101, 108, 108, 105, 116, 101>>
    [] s = "cellular" -> <<99, 101, 108, 108, 117, 108, 97, 114>>
    [] s = "hybrid" -> <<104, 121, 98, 114, 105, 100>>
    [] s = "local" -> <<108, 111, 99, 97, 108>>
    [] s = "disconnected" -> <<100, 105, 115, 99, 111, 110, 110, 101, 99, 116, 101, 100>>
    [] s = "connecting" -> <<99, 111, 110, 110, 101, 99, 116, 105, 110, 103>>
    [] s = "connected" -> <<99, 111, 110, 110, 101, 99, 116, 101, 100>>
    [] s = "error" -> <<101, 114, 114, 111, 114>>

\* The registry is the dict _sensors: its entries in insertion order, each
\* one a sensor id and the sensor object registered under it.
SensorIndex(sensors, sensor_id) ==
  {i \in DOMAIN sensors : sensors[i].sensor_id = sensor_id}

\* a register_sensor that adds a second entry for an id already there
register_sensor_duplicate(c, o) ==
  Outcome([c EXCEPT !.sensors =
             Append(@, [sensor_id |-> SensorObjects[o].sensor_id, sensor |-> o])],
          Ok(None), << >>)

\* self._sensors[sensor.sensor_id] = sensor: an id already there keeps its
\* place and takes the new object
register_sensor(c, o) ==
  LET entry == [sensor_id |-> SensorObjects[o].sensor_id, sensor |-> o]
      at    == SensorIndex(c.sensors, entry.sensor_id)
  IN  Outcome([c EXCEPT !.sensors =
                 IF at = {} THEN Append(@, entry)
                 ELSE [i \in DOMAIN @ |-> IF i \in at THEN entry ELSE @[i]]],
              Ok(None), << >>)

\* an unregister_sensor that removes the oldest entry whatever its id
unregister_sensor_first(c, sensor_id) ==
  IF SensorIndex(c.sensors, sensor_id) # {}
  THEN Outcome([c EXCEPT !.sensors = Tail(@)], Ok(TRUE), << >>)
  ELSE Outcome(c, Ok(FALSE), << >>)

unregister_sensor(c, sensor_id) ==
  IF SensorIndex(c.sensors, sensor_id) # {}
  THEN Outcome([c EXCEPT !.sensors =
                  The({SubSeq(@, 1, i - 1) \o SubSeq(@, i + 1, Len(@))
                       : i \in SensorIndex(c.sensors, sensor_id)})],
               Ok(TRUE), << >>)
  ELSE Outcome(c, Ok(FALSE), << >>)

\* self._sensors.get(sensor_id)
get_sensor(c, sensor_id) ==
  LET at == SensorIndex(c.sensors, sensor_id)
  IN  Outcome(c, Ok(IF at = {} THEN None ELSE Some(c.sensors[The(at)].sensor)), << >>)

\* list(self._sensors.keys())
list_sensors(c) ==
  Outcome(c, Ok([i \in DOMAIN c.sensors |-> c.sensors[i].sensor_id]), << >>)

\* self._transmission_history[-limit:] when limit is truthy, a copy otherwise
get_transmission_history(c, limit) ==
  LET history == c.transmission_history
      h       == Len(history)
  IN  IF limit = None \/ limit[1] = 0 THEN Outcome(c, Ok(history), << >>)
      ELSE IF limit[1] > 0
      THEN Outcome(c, Ok(SubSeq(history, h - Min(limit[1], h) + 1, h)), << >>)
      ELSE Outcome(c, Ok(SubSeq(history, 1 - limit[1], h)), << >>)

\* json.dumps of a str, an int, a list of str and a float (ensure_ascii)
RECURSIVE JsonDigits(_)
JsonDigits(n) ==
  IF n < 10 THEN <<48 + n>> ELSE JsonDigits(n \div 10) \o <<48 + (n % 10)>>

\* '\\u{0:04x}'
JsonHex4(n) ==
  <<92, 117>> \o [i \in 1..4 |->
                   The({IF d < 10 THEN 48 + d ELSE 87 + d
                        : d \in {(n \div Pow2(4 * (4 - i))) % 16}})]

JsonChar(ch) ==
  CASE ch = 34 -> <<92, 34>>
    [] ch = 92 -> <<92, 92>>
    [] ch = 10 -> <<92, 110>>
    [] ch = 13 -> <<92, 114>>
    [] ch = 9  -> <<92, 116>>
    [] ch = 12 -> <<92, 102>>
    [] ch = 8  -> <<92, 98>>
    [] OTHER   -> IF 32 <= ch /\ ch <= 126 THEN <<ch>>
                  ELSE IF ch < 65536 THEN JsonHex4(ch)
                  ELSE JsonHex4(55296 + ((ch - 65536) \div 1024))
                       \o JsonHex4(56320 + ((ch - 65536) % 1024))

RECURSIVE JsonChars(_)
JsonChars(str) ==
  IF str = << >> THEN << >> ELSE JsonChar(Head(str)) \o JsonChars(Tail(str))

JsonString(str) == <<34>> \o JsonChars(str) \o <<34>>

RECURSIVE JsonItems(_)
JsonItems(strs) ==
  IF strs = << >> THEN << >>
  ELSE IF Len(strs) = 1 THEN JsonString(Head(strs))
  ELSE JsonString(Head(strs)) \o <<44, 32>> \o JsonItems(Tail(strs))

JsonList(strs) == <<91>> \o JsonItems(strs) \o <<93>>

\* float.__repr__ of the clock readings: "1234.5"
float_repr(x) ==
  CASE x = FDivInt(12345, 10) -> <<49, 50, 51, 52, 46, 53>>

\* json.dumps(status): the six keys in the order the dict is built
status_json(c, now) ==
  <<123, 34, 100, 101, 118, 105, 99, 101, 95, 105, 100, 34, 58, 32>> \o JsonString(c.device_id)
  \o <<44, 32, 34, 115, 116, 97, 116, 101, 34, 58, 32>> \o JsonString(Chars(c.state))
  \o <<44, 32, 34, 113, 117, 101, 117, 101, 95, 115, 105, 122, 101, 34, 58, 32>> \o JsonDigits(Len(c.message_queue))
  \o <<44, 32, 34, 114, 101, 103, 105, 115, 116, 101, 114, 101, 100, 95, 115, 101, 110, 115, 111, 114, 115, 34, 58, 32>>
       \o JsonList([i \in DOMAIN c.sensors |-> Chars(c.sensors[i].sensor_id)])
  \o <<44, 32, 34, 116, 114, 97, 110, 115, 109, 105, 115, 115, 105, 111, 110, 95, 109, 111, 100, 101, 34, 58, 32>>
       \o JsonString(Chars(c.config.transmission_mode))
  \o <<44, 32, 34, 116, 105, 109, 101, 115, 116, 97, 109, 112, 34, 58, 32>> \o float_repr(now) \o <<125>>

\* a create_status_message that puts the message on the queue as well
create_status_message_enqueued(c, now) ==
  The({ Outcome([c1 EXCEPT !.message_queue =
                   deque_append(@, c.config.max_queue_size, message.val)],
                message, << >>)
      : c1 \in {[c EXCEPT !.sequence_number = c.sequence_number + 1]},
        message \in {Message_post_init(STATUS, Utf8Encode(status_json(c, now)).val,
                                       SENSOR_DATA, BCMP_PROTOCOL_VERSION,
                                       c.sequence_number + 1, None, None, now)} })

create_status_message(c, now) ==
  The({ Outcome(c1, Message_post_init(STATUS, Utf8Encode(status_json(c, now)).val,
                                      SENSOR_DATA, BCMP_PROTOCOL_VERSION,
                                      c1.sequence_number, None, None, now),
                << >>)
      : c1 \in {[c EXCEPT !.sequence_number = c.sequence_number + 1]} })

\* a clear_queue that drops the connection as well
clear_queue_disconnects(c) ==
  Outcome([c EXCEPT !.message_queue = << >>, !.state = "disconnected"],
          Ok(Len(c.message_queue)), << >>)

\* a clear_queue that forgets the history as well
clear_queue_and_history(c) ==
  Outcome([c EXCEPT !.message_queue = << >>, !.transmission_history = << >>],
          Ok(Len(c.message_queue)), << >>)

get_queue_size(c) == Outcome(c, Ok(Len(c.message_queue)), << >>)

clear_queue(c) ==
  Outcome([c EXCEPT !.message_queue = << >>], Ok(Len(c.message_queue)), << >>)

\* a peek_queue that takes the messages it returns off the queue
peek_queue_pop(c, count) ==
  LET q  == c.message_queue
      hi == IF count >= 0 THEN Min(count, Len(q))
            ELSE IF Len(q) + count > 0 THEN Len(q) + count ELSE 0
  IN  Outcome([c EXCEPT !.message_queue = SubSeq(q, hi + 1, Len(q))],
              Ok(SubSeq(q, 1, hi)), << >>)

\* list(self._message_queue)[:count]
peek_queue(c, count) ==
  LET q  == c.message_queue
      hi == IF count >= 0 THEN Min(count, Len(q))
            ELSE IF Len(q) + count > 0 THEN Len(q) + count ELSE 0
  IN  Outcome(c, Ok(SubSeq(q, 1, hi)), << >>)

\* an encoded length that leaves the checksum bytes out
encoded_len_no_checksum(msg) ==
  The({ IF ~data.ok THEN data ELSE Ok(Len(data.val))
      : data \in {pack_without_checksum(msg)} })

\* len(msg.to_bytes()): the packed message and the four checksum bytes
encoded_len(msg) ==
  The({ IF ~data.ok THEN data ELSE Ok(Len(data.val) + 4)
      : data \in {pack_without_checksum(msg)} })

TransmissionResult(success, message_count, bytes_transmitted, mode, now) ==
  [success |-> success, message_count |-> message_count,
   bytes_transmitted |-> bytes_transmitted, timestamp |-> now,
   error_message |-> None, transmission_mode |-> mode]

RECURSIVE drain(_, _, _, _)
\* the loop of transmit: n more iterations on queue q, sent so far, bytes so far
drain(q, n, sent, total) ==
  IF n <= 0 \/ Len(q) = 0 THEN [q |-> q, sent |-> sent, total |-> Ok(total)]
  ELSE The({ IF ~l.ok THEN [q |-> Tail(q), sent |-> sent, total |-> l]
             ELSE drain(Tail(q), n - 1, Append(sent, Head(q)), total + l.val)
           : l \in {encoded_len(Head(q))} })

\* an empty-queue branch that records its result like the other one
transmit_empty_recorded(c, m, now) ==
  LET result == TransmissionResult(TRUE, 0, 0, m, now)
  IN  Outcome([c EXCEPT !.transmission_history = Append(@, result)], Ok(result), << >>)

\* transmit when the queue is empty: the early return
transmit_empty(c, m, now) ==
  Outcome(c, Ok(TransmissionResult(TRUE, 0, 0, m, now)), << >>)

\* a transmit that records its result only after every listener has returned
transmit_record_last(c, mode, max_messages, now) ==
  LET m == IF mode = None THEN c.config.transmission_mode ELSE mode[1]
      q == c.message_queue
  IN  IF Len(q) = 0
      THEN transmit_empty(c, m, now)
      ELSE
      LET wanted == IF max_messages = None \/ max_messages = Some(0)
                    THEN Len(q) ELSE max_messages[1]
          messages_to_send == Min(wanted, Len(q))
      IN  The({
          LET c1 == [c EXCEPT !.message_queue = d.q]
          IN  IF ~d.total.ok THEN Outcome(c1, d.total, << >>)
              ELSE
              LET result == TransmissionResult(TRUE, Len(d.sent), d.total.val, m, now)
                  c2 == [c1 EXCEPT !.transmission_history = Append(@, result)]
                  n  == Invoke(c.callbacks.on_transmit, result)
              IN  IF n.raised THEN Outcome(c1, Raise("ListenerError"), n.calls)
                  ELSE Outcome(c2, Ok(result), n.calls)
          : d \in {drain(q, messages_to_send, << >>, 0)} })

\* mode and max_messages are optional: None, or Some(value)
transmit(c, mode, max_messages, now) ==
  LET m == IF mode = None THEN c.config.transmission_mode ELSE mode[1]
      q == c.message_queue
  IN  IF Len(q) = 0
      THEN transmit_empty(c, m, now)
      ELSE
      LET wanted == IF max_messages = None \/ max_messages = Some(0)
                    THEN Len(q) ELSE max_messages[1]
          messages_to_send == Min(wanted, Len(q))
      IN  The({
          LET c1 == [c EXCEPT !.message_queue = d.q]
          IN  IF ~d.total.ok THEN Outcome(c1, d.total, << >>)
              ELSE
              LET result == TransmissionResult(TRUE, Len(d.sent), d.total.val, m, now)
                  c2 == [c1 EXCEPT !.transmission_history = Append(@, result)]
                  n  == Invoke(c.callbacks.on_transmit, result)
              IN  Outcome(c2, IF n.raised THEN Raise("ListenerError") ELSE Ok(result),
                          n.calls)
          : d \in {drain(q, messages_to_send, << >>, 0)} })

on_transmit(c, callback) ==
  Outcome([c EXCEPT !.callbacks.on_transmit = Append(@, callback)], Ok(None), << >>)

on_error(c, callback) ==
  Outcome([c EXCEPT !.callbacks.on_error = Append(@, callback)], Ok(None), << >>)

on_state_change(c, callback) ==
  Outcome([c EXCEPT !.callbacks.on_state_change = Append(@, callback)], Ok(None), << >>)

(***************************************************************************)
(* The buoy client as a state machine: one action per public operation.    *)
(* Op(arguments) is the call with these arguments; the action itself draws *)
(* the arguments from the sets below.                                      *)
(***************************************************************************)
VARIABLES
  client,      \* the SpotterBuoyClient object
  sensor,      \* the mutable part of each sensor object
  calls,       \* the listener calls the last operation made, in order
  enqueued,    \* the messages accepted since the last transmit or clear_queue
  count,       \* how many enqueue and transmit calls were made so far, and how
               \* many transmit calls found a message queued and encoded all they took
  limit,       \* how many of them a behaviour of the model may make
  wire         \* a codec session: an object, its encoding, the bytes decoded

vars == <<client, sensor, calls, enqueued, count, limit, wire>>

\* bounds of the model
MaxCap == 2

MaxEnqueue == 3

MaxTransmit == 1

MaxListeners == 2

NotifyEnqueue == 2

NotifyTransmit == 2

MaxSensorOps == 2

MaxClientEnqueue == 2

MaxClientTransmit == 2

MaxDrainEnqueue == 3

MaxDrainTransmit == 2

MaxListenEnqueue == 1

MaxListenTransmit == 1

MaxStatusOps == 2
MaxTruncate == 32
MaxStateListeners == 3
MaxErrorEnqueue == 2
MaxErrorTransmit == 1

\* SpotterConfig: the default transmission mode, and the capacities modelled
Configs == {[max_queue_size |-> n, transmission_mode |-> "hybrid"] : n \in 0..MaxCap}

\* the sensor whose readings are queued
SensorPool == {1}

\* messages a caller builds itself and hands to queue_message: the second one
\* has a sequence number that struct.pack('!I') rejects
CallerMessages ==
  {[topic |-> STATUS, payload |-> <<104, 105>>, message_type |-> 8,
    version |-> BCMP_PROTOCOL_VERSION, sequence_number |-> s,
    timestamp |-> FDivInt(10015, 10000), source_node_id |-> None] : s \in {7, -1}}

\* payloads handed to queue_raw_data: the second one is one byte too long
RawPayloads == {<<1, 2, 3>>, Rep(0, MAX_PAYLOAD_SIZE + 1)}

\* readings handed to queue_reading: the second one, with a negative
\* timestamp, cannot be packed
CallerReadings ==
  {[value |-> FDivInt(225, 10), unit |-> "CELSIUS", timestamp |-> t,
    quality |-> 100, sensor_id |-> None, depth_m |-> None] :
     t \in {FDivInt(12345, 10), FNeg(FInt(1))}}

\* values handed to create_reading of sensor object o: its two bounds, a
\* value below every minimum and one above every maximum
ReadingValues(o) ==
  {SensorObjects[o].min_value, SensorObjects[o].max_value, FNeg(FInt(6)), FInt(4001)}

\* the qualities around the ends of 0..100
Qualities == {-1, 0, 100, 101}

\* the sensor objects that are CurrentMeterSensors
CurrentMeters == {o \in DOMAIN SensorObjects : SensorObjects[o].topic = CURRENT}

\* directions handed to wrap_current_reading, in degrees
Directions == {FInt(90)}

\* directions handed to create_current_reading: the ends of 0..360 and the
\* nearest whole degrees outside
CurrentDirections == {FNeg(FInt(1)), FZero, FInt(360), FInt(361)}

\* the sensor objects handed to register_sensor: the two TemperatureSensors
\* share an id
RegistryPool == {1, 2, 3}

\* the ids asked for: those of the pool and one that is never registered
SensorIds == {SensorObjects[o].sensor_id : o \in RegistryPool \cup CurrentMeters}

\* the limits handed to get_transmission_history
HistoryLimits == {None} \cup {Some(n) : n \in 0..(MaxClientTransmit + 1)}

\* the modes handed to transmit by a caller that names one
TransmitModes == {None, Some("cellular")}

\* the arguments of transmit: the configured mode, every cap
ModeArgs == {None}

MaxMessagesArgs == {None} \cup {Some(k) : k \in -1..MaxCap}

\* no codec session
NoWire == [phase |-> "idle", how |-> "none", obj |-> None, enc |-> None,
           buf |-> << >>, dec |-> None]

Start ==
  /\ \E config \in Configs : client = Client_init(config)
  /\ sensor = Sensors_init
  /\ calls = << >>
  /\ enqueued = << >>
  /\ count = [enqueue |-> 0, transmit |-> 0, drained |-> 0]
  /\ wire = NoWire

\* the queue and the transmission pipeline, no listener registered
Init == Start /\ limit = [enqueue |-> MaxEnqueue, transmit |-> MaxTransmit]

\* the transmit listeners, around a short queue of the largest capacity
InitNotify ==
  /\ Start
  /\ client.config.max_queue_size = MaxCap
  /\ limit = [enqueue |-> NotifyEnqueue, transmit |-> NotifyTransmit]

\* the connection state and its listeners
InitState == Start /\ limit = [enqueue |-> 0, transmit |-> 0]

SetStateOp(new_state) ==
  LET out == set_state(client, new_state)
  IN  /\ client' = out.c
      /\ calls' = out.calls
      /\ UNCHANGED <<sensor, enqueued, count, limit, wire>>

SetState == \E new_state \in ConnectionState : SetStateOp(new_state)

QueueReadingOp(o, reading, now) ==
  LET w   == wrap_reading(o, sensor[o], reading, now)
      out == queue_reading(client, w)
  IN  /\ count.enqueue < limit.enqueue
      /\ client' = out.c
      /\ sensor' = [sensor EXCEPT ![o] = w.st]
      /\ calls' = out.calls
      /\ enqueued' = IF out.ret.ok THEN Append(enqueued, out.ret.val) ELSE enqueued
      /\ count' = [count EXCEPT !.enqueue = @ + 1]
      /\ UNCHANGED <<limit, wire>>

QueueReading ==
  \E o \in SensorPool, reading \in CallerReadings, now \in ClockReadings :
    QueueReadingOp(o, reading, now)

QueueMessageOp(message) ==
  LET out == queue_message(client, message)
  IN  /\ count.enqueue < limit.enqueue
      /\ client' = out.c
      /\ calls' = out.calls
      /\ enqueued' = Append(enqueued, message)
      /\ count' = [count EXCEPT !.enqueue = @ + 1]
      /\ UNCHANGED <<sensor, limit, wire>>

QueueMessage == \E message \in CallerMessages : QueueMessageOp(message)

QueueRawDataOp(topic, data, message_type, now) ==
  LET out == queue_raw_data(client, topic, data, message_type, now)
  IN  /\ count.enqueue < limit.enqueue
      /\ client' = out.c
      /\ calls' = out.calls
      /\ enqueued' = IF out.ret.ok THEN Append(enqueued, out.ret.val) ELSE enqueued
      /\ count' = [count EXCEPT !.enqueue = @ + 1]
      /\ UNCHANGED <<sensor, limit, wire>>

QueueRawData ==
  \E data \in RawPayloads, now \in ClockReadings :
    QueueRawDataOp(TRANSMIT_DATA, data, SENSOR_DATA, now)

ClearQueue ==
  LET out == clear_queue(client)
  IN  /\ client' = out.c
      /\ calls' = out.calls
      /\ enqueued' = << >>
      /\ UNCHANGED <<sensor, count, limit, wire>>

PeekQueueOp(n) ==
  LET out == peek_queue(client, n)
  IN  /\ client' = out.c
      /\ calls' = out.calls
      /\ UNCHANGED <<sensor, enqueued, count, limit, wire>>

PeekQueue == \E n \in -1..MaxCap : PeekQueueOp(n)

TransmitOp(mode, max_messages, now) ==
  LET out == transmit(client, mode, max_messages, now)
  IN  /\ count.transmit < limit.transmit
      /\ client' = out.c
      /\ calls' = out.calls
      /\ enqueued' = << >>
      /\ count' = [count EXCEPT
                     !.transmit = @ + 1,
                     !.drained = IF Len(client.message_queue) > 0
                                    /\ (out.ret.ok \/ out.ret.err = "ListenerError")
                                 THEN @ + 1 ELSE @]
      /\ UNCHANGED <<sensor, limit, wire>>

Transmit ==
  \E mode \in ModeArgs, max_messages \in MaxMessagesArgs, now \in ClockReadings :
    TransmitOp(mode, max_messages, now)

OnTransmitOp(l) ==
  LET out == on_transmit(client, l)
  IN  /\ Len(client.callbacks.on_transmit) < MaxListeners
      /\ client' = out.c
      /\ calls' = out.calls
      /\ UNCHANGED <<sensor, enqueued, count, limit, wire>>

OnTransmit == \E l \in Listeners : OnTransmitOp(l)

OnStateChangeOp(l) ==
  LET out == on_state_change(client, l)
  IN  /\ Len(client.callbacks.on_state_change) < MaxListeners
      /\ client' = out.c
      /\ calls' = out.calls
      /\ UNCHANGED <<sensor, enqueued, count, limit, wire>>

OnStateChange == \E l \in Listeners : OnStateChangeOp(l)

Next ==
  \/ QueueReading
  \/ QueueMessage
  \/ QueueRawData
  \/ ClearQueue
  \/ PeekQueue
  \/ Transmit

Spec == Init /\ [][Next]_vars

NextNotify ==
  \/ OnTransmit
  \/ QueueMessage
  \/ Transmit

SpecNotify == InitNotify /\ [][NextNotify]_vars

NextState ==
  \/ OnStateChange
  \/ SetState

SpecState == InitState /\ [][NextState]_vars

\* the sensors and the client as producers of messages
InitSensor ==
  /\ Start
  /\ client.config.max_queue_size = MaxCap
  /\ limit = [enqueue |-> MaxSensorOps, transmit |-> 0]

CreateReading ==
  \E o \in DOMAIN SensorObjects, quality \in Qualities, now \in ClockReadings :
    \E value \in ReadingValues(o) :
      \E out \in {create_reading(o, sensor[o], value, None, None, quality, None, now)} :
        /\ count.enqueue < limit.enqueue
        /\ sensor' = [sensor EXCEPT ![o] = out.st]
        /\ count' = [count EXCEPT !.enqueue = @ + 1]
        /\ UNCHANGED <<client, calls, enqueued, limit, wire>>

WrapReading ==
  \E o \in DOMAIN SensorObjects, reading \in CallerReadings, now \in ClockReadings :
    \E out \in {wrap_reading(o, sensor[o], reading, now)} :
      /\ count.enqueue < limit.enqueue
      /\ sensor' = [sensor EXCEPT ![o] = out.st]
      /\ count' = [count EXCEPT !.enqueue = @ + 1]
      /\ UNCHANGED <<client, calls, enqueued, limit, wire>>

WrapCurrentReading ==
  \E o \in CurrentMeters, reading \in CallerReadings, now \in ClockReadings :
    \E direction_deg \in Directions :
      \E out \in {wrap_current_reading(o, sensor[o], reading, direction_deg, now)} :
        /\ count.enqueue < limit.enqueue
        /\ sensor' = [sensor EXCEPT ![o] = out.st]
        /\ count' = [count EXCEPT !.enqueue = @ + 1]
        /\ UNCHANGED <<client, calls, enqueued, limit, wire>>

CreateCurrentReading ==
  \E o \in CurrentMeters, direction_deg \in CurrentDirections, now \in ClockReadings :
    \E speed_ms \in ReadingValues(o) :
      \E out \in {create_current_reading(o, sensor[o], speed_ms, direction_deg,
                                         None, 100, None, now)} :
        /\ count.enqueue < limit.enqueue
        /\ sensor' = [sensor EXCEPT ![o] = out.st]
        /\ count' = [count EXCEPT !.enqueue = @ + 1]
        /\ UNCHANGED <<client, calls, enqueued, limit, wire>>

CreateStatusMessage ==
  \E now \in ClockReadings :
    \E out \in {create_status_message(client, now)} :
      /\ count.enqueue < limit.enqueue
      /\ client' = out.c
      /\ calls' = out.calls
      /\ count' = [count EXCEPT !.enqueue = @ + 1]
      /\ wire' = [NoWire EXCEPT !.phase = "status", !.dec = out.ret]
      /\ UNCHANGED <<sensor, enqueued, limit>>

\* the client with its registry, its queue and its history
InitClient ==
  /\ Start
  /\ client.config.max_queue_size = MaxCap
  /\ limit = [enqueue |-> MaxClientEnqueue, transmit |-> MaxClientTransmit]

RegisterSensor ==
  \E o \in RegistryPool :
    \E out \in {register_sensor(client, o)} :
      /\ client' = out.c
      /\ calls' = out.calls
      /\ wire' = [NoWire EXCEPT !.phase = "register_sensor", !.obj = Some(o),
                                !.enc = client.sensors, !.dec = out.ret]
      /\ UNCHANGED <<sensor, enqueued, count, limit>>

UnregisterSensor ==
  \E sensor_id \in SensorIds :
    \E out \in {unregister_sensor(client, sensor_id)} :
      /\ client' = out.c
      /\ calls' = out.calls
      /\ wire' = [NoWire EXCEPT !.phase = "unregister_sensor", !.obj = Some(sensor_id),
                                !.enc = client.sensors, !.dec = out.ret]
      /\ UNCHANGED <<sensor, enqueued, count, limit>>

GetSensor ==
  \E sensor_id \in SensorIds :
    \E out \in {get_sensor(client, sensor_id)} :
      /\ client' = out.c
      /\ calls' = out.calls
      /\ UNCHANGED <<sensor, enqueued, count, limit, wire>>

ListSensors ==
  \E out \in {list_sensors(client)} :
    /\ client' = out.c
    /\ calls' = out.calls
    /\ UNCHANGED <<sensor, enqueued, count, limit, wire>>

GetTransmissionHistory ==
  \E lim \in HistoryLimits :
    \E out \in {get_transmission_history(client, lim)} :
      /\ client' = out.c
      /\ calls' = out.calls
      /\ UNCHANGED <<sensor, enqueued, count, limit, wire>>

TransmitMode ==
  \E mode \in TransmitModes, max_messages \in {None, Some(1)}, now \in ClockReadings :
    TransmitOp(mode, max_messages, now)

NextClient ==
  \/ RegisterSensor
  \/ UnregisterSensor
  \/ GetSensor
  \/ ListSensors
  \/ QueueRawData
  \/ ClearQueue
  \/ TransmitMode
  \/ SetState
  \/ GetTransmissionHistory

SpecClient == InitClient /\ [][NextClient]_vars

\* the queue drained by transmit calls that name a mode or leave it out
InitDrain ==
  /\ Start
  /\ client.config.max_queue_size = MaxCap
  /\ limit = [enqueue |-> MaxDrainEnqueue, transmit |-> MaxDrainTransmit]

NextDrain ==
  \/ QueueReading
  \/ QueueRawData
  \/ TransmitMode

SpecDrain == InitDrain /\ [][NextDrain]_vars

\* the listeners of both kinds, around a queue of one message
InitListen ==
  /\ Start
  /\ client.config.max_queue_size = MaxCap
  /\ limit = [enqueue |-> MaxListenEnqueue, transmit |-> MaxListenTransmit]

NextListen ==
  \/ OnTransmit
  \/ OnStateChange
  \/ QueueRawData
  \/ Transmit
  \/ SetState

SpecListen == InitListen /\ [][NextListen]_vars

\* the client whose status is reported: registry, state and queue vary
InitStatus ==
  /\ Start
  /\ client.config.max_queue_size = MaxCap
  /\ limit = [enqueue |-> MaxStatusOps, transmit |-> 0]

NextStatus ==
  \/ RegisterSensor
  \/ SetState
  \/ QueueRawData
  \/ CreateStatusMessage

SpecStatus == InitStatus /\ [][NextStatus]_vars

\* the state listeners, each registered once, around assignments of the
\* state; wire.dec holds, for every listener, the new state of the
\* notification it received last, and wire.enc what wire.dec was before the
\* last assignment
InitReenter ==
  /\ client = Client_init([max_queue_size |-> MaxCap, transmission_mode |-> "hybrid"])
  /\ sensor = Sensors_init
  /\ calls = << >>
  /\ enqueued = << >>
  /\ count = [enqueue |-> 0, transmit |-> 0, drained |-> 0]
  /\ limit = [enqueue |-> 0, transmit |-> 0]
  /\ wire = [NoWire EXCEPT !.enc = [l \in StateListeners |-> None],
                           !.dec = [l \in StateListeners |-> None]]

\* the new state of the last notification that l received in these calls
LastSeen(cs, l, before) ==
  IF \E i \in DOMAIN cs : cs[i][1] = l
  THEN Some(cs[CHOOSE i \in DOMAIN cs :
                 cs[i][1] = l /\ \A j \in DOMAIN cs : cs[j][1] = l => j <= i][2][2])
  ELSE before

RegisterStateListenerOp(l) ==
  LET out == on_state_change(client, l)
  IN  /\ Len(client.callbacks.on_state_change) < MaxStateListeners
      /\ l \notin Range(client.callbacks.on_state_change)
      /\ client' = out.c
      /\ calls' = out.calls
      /\ wire' = [wire EXCEPT !.enc = wire.dec,
                              !.dec[l] = IF wire.phase = "idle" THEN Some("disconnected")
                                         ELSE None]
      /\ UNCHANGED <<sensor, enqueued, count, limit>>

RegisterStateListener == \E l \in StateListeners : RegisterStateListenerOp(l)

AssignStateOp(new_state) ==
  LET out == set_state_from(client, new_state)
  IN  /\ client' = out.c
      /\ calls' = out.calls
      /\ wire' = [wire EXCEPT !.phase = "state", !.enc = wire.dec,
                              !.dec = [l \in StateListeners |->
                                         LastSeen(out.calls, l, wire.dec[l])]]
      /\ UNCHANGED <<sensor, enqueued, count, limit>>

AssignState == \E new_state \in ConnectionState : AssignStateOp(new_state)

NextReenter ==
  \/ RegisterStateListener
  \/ AssignState

SpecReenter == InitReenter /\ [][NextReenter]_vars

\* the callables registered with on_error; they are registered with nothing
\* else
ErrorListeners == {"err1", "err2"}

OnErrorOp(l) ==
  LET out == on_error(client, l)
  IN  /\ Len(client.callbacks.on_error) < MaxListeners
      /\ client' = out.c
      /\ calls' = out.calls
      /\ UNCHANGED <<sensor, enqueued, count, limit, wire>>

OnError == \E l \in ErrorListeners : OnErrorOp(l)

\* a client with error listeners, around operations that succeed and fail
InitError ==
  /\ Start
  /\ client.config.max_queue_size = MaxCap
  /\ limit = [enqueue |-> MaxErrorEnqueue, transmit |-> MaxErrorTransmit]

NextError ==
  \/ OnError
  \/ OnTransmit
  \/ QueueMessage
  \/ QueueRawData
  \/ ClearQueue
  \/ Transmit

SpecError == InitError /\ [][NextError]_vars

NextSensor ==
  \/ CreateReading
  \/ CreateCurrentReading
  \/ WrapReading
  \/ WrapCurrentReading
  \/ QueueRawData
  \/ CreateStatusMessage

SpecSensor == InitSensor /\ [][NextSensor]_vars
(***************************************************************************)
(* The codec as a state machine: a caller builds a message or a topic,     *)
(* encodes it, the bytes travel (intact, or with the checksum or the magic *)
(* byte changed), and a receiver decodes them.  A receiver may also be     *)
(* handed bytes that no encoder made.                                      *)
(***************************************************************************)
\* topic names as code points: "a", 64 times "a", 64 times U+00E9 (128 bytes
\* of UTF-8), a lone surrogate, and two names the constructor rejects
CodecNames ==
  {<<97>>, STATUS.name, Rep(97, MAX_TOPIC_NAME), Rep(233, MAX_TOPIC_NAME),
   <<55296>>, << >>, Rep(97, MAX_TOPIC_NAME + 1)}

CodecVersions == {0, 1, 255, 256, -1}

MessageTopics ==
  {[name |-> n, version |-> v, node_id |-> None] :
     n \in {<<97>>, Rep(97, MAX_TOPIC_NAME)}, v \in {1, 255}}

\* 0.0, 1234.5 and 1.0015 seconds
CodecTimestamps == {FZero, FDivInt(12345, 10), FDivInt(10015, 10000)}

CodecSeqs == {0, 2147483647}

\* the constructor arguments of the messages built
CodecArgs ==
  {[topic |-> [name |-> <<97>>, version |-> 1, node_id |-> None], payload |-> << >>,
    message_type |-> k, sequence_number |-> 0, timestamp |-> t] :
     k \in MessageType, t \in CodecTimestamps}
  \cup
  {[topic |-> tp, payload |-> <<1, 2, 3>>, message_type |-> SENSOR_DATA,
    sequence_number |-> q, timestamp |-> FDivInt(12345, 10)] :
     tp \in MessageTopics, q \in CodecSeqs}
  \cup
  {[topic |-> STATUS, payload |-> Rep(7, n), message_type |-> SENSOR_DATA,
    sequence_number |-> 1, timestamp |-> FDivInt(12345, 10)] :
     n \in {MAX_PAYLOAD_SIZE, MAX_PAYLOAD_SIZE + 1}}

\* buffers that no encoder made
RawBuffers == {Rep(b, n) : b \in {0, 255, BCMP_HEADER_MAGIC}, n \in {21, 22, 40}}

\* the last four bytes of an encoded message
ChecksumOf(data) == SubSeq(data, Len(data) - 3, Len(data))

\* Other values for the four checksum bytes of an encoded message: one bit
\* changed in the last byte, one in the first, all zero, and the checksum of
\* the message a receiver builds from the other bytes.
OtherChecksums(data) ==
  LET c == ChecksumOf(data)
      f == Message_fields(SubSeq(data, 1, Len(data) - 4))
      r == IF f.ok THEN calculate_checksum(f.val.msg) ELSE f
  IN  ({[c EXCEPT ![4] = IF c[4] % 2 = 0 THEN c[4] + 1 ELSE c[4] - 1],
        [c EXCEPT ![1] = (c[1] + 128) % 256],
        Rep(0, 4)}
       \cup (IF r.ok THEN {r.val} ELSE {})) \ {c}

InitCodec ==
  /\ client = Client_init([max_queue_size |-> MaxCap, transmission_mode |-> "hybrid"])
  /\ sensor = Sensors_init
  /\ calls = << >>
  /\ enqueued = << >>
  /\ count = [enqueue |-> 0, transmit |-> 0, drained |-> 0]
  /\ limit = [enqueue |-> 0, transmit |-> 0]
  /\ wire = NoWire

BuildMessage ==
  \E a \in CodecArgs, now \in ClockReadings :
    /\ wire.phase = "idle"
    /\ wire' = [wire EXCEPT !.phase = "message",
                            !.obj = Message_post_init(a.topic, a.payload, a.message_type,
                                                      BCMP_PROTOCOL_VERSION,
                                                      a.sequence_number,
                                                      Some(a.timestamp), None, now)]
    /\ UNCHANGED <<client, sensor, calls, enqueued, count, limit>>

EncodeMessage ==
  /\ wire.phase = "message"
  /\ wire.obj.ok
  /\ LET enc == Message_to_bytes(wire.obj.val)
     IN  wire' = [wire EXCEPT !.phase = "encoded", !.how = "intact", !.enc = enc,
                              !.buf = IF enc.ok THEN enc.val ELSE << >>]
  /\ UNCHANGED <<client, sensor, calls, enqueued, count, limit>>

ChangeChecksum ==
  /\ wire.phase = "encoded"
  /\ wire.how = "intact"
  /\ wire.enc.ok
  /\ \E c \in OtherChecksums(wire.buf) :
       wire' = [wire EXCEPT !.how = "checksum",
                            !.buf = SubSeq(wire.buf, 1, Len(wire.buf) - 4) \o c]
  /\ UNCHANGED <<client, sensor, calls, enqueued, count, limit>>

ChangeMagic ==
  /\ wire.phase = "encoded"
  /\ wire.how = "intact"
  /\ wire.enc.ok
  /\ \E b \in {0, BCMP_HEADER_MAGIC - 1} :
       wire' = [wire EXCEPT !.how = "magic", !.buf = [wire.buf EXCEPT ![1] = b]]
  /\ UNCHANGED <<client, sensor, calls, enqueued, count, limit>>

\* the lengths at which an encoded message is cut: every length up to
\* MaxTruncate, and the lengths that end inside or just before the checksum
TruncateLengths(buf) ==
  {n \in 0..(Len(buf) - 1) : n <= MaxTruncate \/ n >= Len(buf) - 5}

\* a proper prefix of an encoded message reaches the receiver
Truncate ==
  /\ wire.phase = "encoded"
  /\ wire.how = "intact"
  /\ wire.enc.ok
  /\ \E n \in TruncateLengths(wire.buf) :
       wire' = [wire EXCEPT !.how = "truncated", !.buf = SubSeq(wire.buf, 1, n)]
  /\ UNCHANGED <<client, sensor, calls, enqueued, count, limit>>

Receive ==
  /\ wire.phase = "idle"
  /\ \E b \in RawBuffers :
       wire' = [wire EXCEPT !.phase = "encoded", !.how = "raw", !.buf = b]
  /\ UNCHANGED <<client, sensor, calls, enqueued, count, limit>>

\* decode(encode(m)): an error of the encoder reaches the caller
DecodeMessage ==
  /\ wire.phase = "encoded"
  /\ wire' = [wire EXCEPT !.phase = "decoded",
                          !.dec = IF wire.how = "raw" THEN Message_from_bytes(wire.buf)
                                  ELSE IF ~wire.enc.ok THEN wire.enc
                                  ELSE Message_from_bytes(wire.buf)]
  /\ UNCHANGED <<client, sensor, calls, enqueued, count, limit>>

BuildTopic ==
  \E name \in CodecNames, version \in CodecVersions :
    /\ wire.phase = "idle"
    /\ wire' = [wire EXCEPT !.phase = "topic",
                            !.obj = Topic_post_init(name, version, None)]
    /\ UNCHANGED <<client, sensor, calls, enqueued, count, limit>>

EncodeTopic ==
  /\ wire.phase = "topic"
  /\ wire.obj.ok
  /\ LET enc == Topic_to_bytes(wire.obj.val)
     IN  wire' = [wire EXCEPT !.phase = "topic_encoded", !.how = "intact", !.enc = enc,
                              !.buf = IF enc.ok THEN enc.val ELSE << >>]
  /\ UNCHANGED <<client, sensor, calls, enqueued, count, limit>>

\* decode(encode(t))
DecodeTopic ==
  /\ wire.phase = "topic_encoded"
  /\ wire' = [wire EXCEPT !.phase = "topic_decoded",
                          !.dec = IF ~wire.enc.ok THEN wire.enc
                                  ELSE Topic_from_bytes(wire.buf)]
  /\ UNCHANGED <<client, sensor, calls, enqueued, count, limit>>

\* the readings built for the codec: values, timestamps, qualities and depths
\* on both sides of what the encoding holds
CodecReadings ==
  {[value |-> v, timestamp |-> t, quality |-> q, depth_m |-> d] :
     v \in {FDivInt(225, 10), FNeg(FDivInt(1, 3))},
     t \in {FDivInt(12345, 10), FNeg(FInt(1))},
     q \in {0, 100, 101},
     d \in {None, Some(FZero), Some(FNeg(FZero)), Some(FDivInt(21, 2)),
            Some(FDivInt(1, 10)), Some(FNeg(FInt(1))), Some(FNeg(FInt(2)))}}

BuildReading ==
  \E r \in CodecReadings :
    /\ wire.phase = "idle"
    /\ wire' = [wire EXCEPT !.phase = "reading",
                            !.obj = SensorReading_post_init(r.value, "CELSIUS", r.timestamp,
                                                            r.quality, None, r.depth_m)]
    /\ UNCHANGED <<client, sensor, calls, enqueued, count, limit>>

EncodeReading ==
  /\ wire.phase = "reading"
  /\ wire.obj.ok
  /\ \E enc \in {SensorReading_to_bytes(wire.obj.val)} :
       wire' = [wire EXCEPT !.phase = "reading_encoded", !.how = "intact", !.enc = enc,
                            !.buf = IF enc.ok THEN enc.val ELSE << >>]
  /\ UNCHANGED <<client, sensor, calls, enqueued, count, limit>>

\* SensorReading.from_bytes(r.to_bytes(), r.unit)
DecodeReading ==
  /\ wire.phase = "reading_encoded"
  /\ wire.enc.ok
  /\ wire' = [wire EXCEPT !.phase = "reading_decoded",
                          !.dec = SensorReading_from_bytes(wire.buf, wire.obj.val.unit)]
  /\ UNCHANGED <<client, sensor, calls, enqueued, count, limit>>

NextCodec ==
  \/ BuildReading
  \/ EncodeReading
  \/ DecodeReading
  \/ BuildMessage
  \/ EncodeMessage
  \/ ChangeChecksum
  \/ ChangeMagic
  \/ Truncate
  \/ Receive
  \/ DecodeMessage
  \/ BuildTopic
  \/ EncodeTopic
  \/ DecodeTopic

SpecCodec == InitCodec /\ [][NextCodec]_vars
(***************************************************************************)
(* Properties of the queue (specification Spec)                            *)
(***************************************************************************)
\* the capacity the client was configured with, and shorthands
Capacity == client.config.max_queue_size

Queue == client.message_queue

History == client.transmission_history

\* to_bytes accepts the message
Encodable(msg) == encoded_len(msg).ok

\* the arguments transmit is called with
TransmitCalls == ModeArgs \X MaxMessagesArgs \X ClockReadings

\* C1: in every reachable state, after any sequence of queue_reading,
\* queue_message, queue_raw_data, transmit, clear_queue and peek_queue calls,
\* the queue holds at most max_queue_size messages.
C1_QueueWithinCapacity == Len(Queue) <= Capacity

\* C1 witness: a queue of capacity 1 that is full after three accepted
\* messages, two of them evicted.
C1_Witness == Capacity = 1 /\ Len(Queue) = 1 /\ Len(enqueued) = 3

\* C2: with capacity c >= 1, every enqueue with valid arguments on a queue
\* that holds c messages succeeds, removes exactly the oldest message and
\* puts the new one at the tail; and after more than c enqueues with no
\* transmit or clear_queue between them the queue holds exactly the c most
\* recently enqueued messages, oldest first.
C2_EvictsOldest ==
  /\ (Capacity >= 1 /\ Len(Queue) = Capacity) =>
       /\ \A message \in CallerMessages :
            LET out == queue_message(client, message)
            IN  out.ret.ok /\ out.c.message_queue = Append(Tail(Queue), message)
       /\ \A data \in RawPayloads, now \in ClockReadings :
            LET out == queue_raw_data(client, TRANSMIT_DATA, data, SENSOR_DATA, now)
            IN  Len(data) <= MAX_PAYLOAD_SIZE =>
                  /\ out.ret.ok
                  /\ out.ret.val.payload = data
                  /\ out.c.message_queue = Append(Tail(Queue), out.ret.val)
       /\ \A o \in SensorPool, reading \in CallerReadings, now \in ClockReadings :
            LET w   == wrap_reading(o, sensor[o], reading, now)
                out == queue_reading(client, w)
            IN  reading.timestamp.s = 0 =>
                  /\ out.ret.ok
                  /\ out.ret.val.topic = SensorObjects[o].topic
                  /\ out.c.message_queue = Append(Tail(Queue), out.ret.val)
  /\ (Capacity >= 1 /\ Len(enqueued) > Capacity) =>
       Queue = SubSeq(enqueued, Len(enqueued) - Capacity + 1, Len(enqueued))

\* C2 witness: a queue of the largest capacity after one enqueue too many: it
\* holds the later messages in order and the first one is gone.
C2_Witness ==
  /\ Capacity = MaxCap
  /\ Len(enqueued) = MaxCap + 1
  /\ Queue = Tail(enqueued)
  /\ \A i \in DOMAIN Queue : Queue[i] # enqueued[1]

\* C3, as claimed: on a queue of n encodable messages, for every k with
\* 0 <= k <= n, transmit(max_messages=k) returns a result whose message
\* count is k and leaves the other n - k messages, in their order.
C3_DrainsExactlyK ==
  (\A i \in DOMAIN Queue : Encodable(Queue[i])) =>
    \A k \in 0..Len(Queue), now \in ClockReadings :
      \A out \in {transmit(client, None, Some(k), now)} :
        /\ out.ret.ok
        /\ out.ret.val.message_count = k
        /\ out.c.message_queue = SubSeq(Queue, k + 1, Len(Queue))

(***************************************************************************)
(* Properties of transmit and its listeners (specification SpecNotify)     *)
(***************************************************************************)
\* the position of the first listener that raises, 0 when none does
FirstRaise(cbs) ==
  IF \E i \in DOMAIN cbs : ListenerRaises(cbs[i])
  THEN CHOOSE i \in DOMAIN cbs :
         ListenerRaises(cbs[i]) /\ \A j \in 1..(i - 1) : ~ListenerRaises(cbs[j])
  ELSE 0

\* the calls a notification with this argument makes: every listener in
\* registration order, up to and including the first one that raises
Notified(cbs, arg) ==
  [i \in 1..(IF FirstRaise(cbs) = 0 THEN Len(cbs) ELSE FirstRaise(cbs)) |->
     <<cbs[i], arg>>]

\* C4, as claimed: the history length always equals the number of transmit
\* calls made so far.
C4_EveryCallRecorded == Len(History) = count.transmit

\* C4, amended: a transmit call on a non-empty queue that encodes the
\* messages it takes appends exactly one result to the history, the one it
\* returns; a call on an empty queue returns success with zero messages and
\* zero bytes and changes nothing; a call that fails while encoding appends
\* nothing.  The history length is the number of calls that found a message
\* queued and did not fail while encoding.
C4_NonEmptyCallsRecorded ==
  /\ Len(History) = count.drained
  /\ \A a \in TransmitCalls : \A out \in {transmit(client, a[1], a[2], a[3])} :
       LET h == out.c.transmission_history
       IN  IF Len(Queue) = 0
           THEN /\ out.ret = Ok(TransmissionResult(TRUE, 0, 0,
                                                   client.config.transmission_mode, a[3]))
                /\ out.c = client
           ELSE IF out.ret.ok
           THEN h = Append(History, out.ret.val)
           ELSE IF out.ret.err = "ListenerError"
           THEN Len(h) = Len(History) + 1 /\ SubSeq(h, 1, Len(History)) = History
           ELSE h = History

\* C4 witness: two transmit calls made, one of them on an empty queue: one
\* result in the history.
C4_Witness ==
  count.transmit = 2 /\ count.drained = 1 /\ Len(History) = 1 /\ Len(Queue) = 0

\* C5, as claimed: every transmit call that returns, also one on an empty
\* queue, has invoked each registered transmit listener once, in
\* registration order, with the result it returns.
C5_EveryCallNotifies ==
  \A a \in TransmitCalls : \A out \in {transmit(client, a[1], a[2], a[3])} :
    LET cbs == client.callbacks.on_transmit
    IN  out.ret.ok => out.calls = [i \in DOMAIN cbs |-> <<cbs[i], out.ret.val>>]

\* C5, amended: a transmit call on a non-empty queue that encodes the
\* messages it takes invokes the registered transmit listeners in
\* registration order, each once, with the result it appended to the history
\* (the one it returns), up to and including the first listener that raises;
\* a call on an empty queue, or one that fails while encoding, invokes none.
C5_NonEmptyCallsNotify ==
  \A a \in TransmitCalls : \A out \in {transmit(client, a[1], a[2], a[3])} :
    LET cbs == client.callbacks.on_transmit
        h   == out.c.transmission_history
    IN  IF Len(Queue) = 0 THEN out.calls = << >>
        ELSE IF out.ret.ok
        THEN /\ FirstRaise(cbs) = 0
             /\ out.calls = [i \in DOMAIN cbs |-> <<cbs[i], out.ret.val>>]
        ELSE IF out.ret.err = "ListenerError"
        THEN FirstRaise(cbs) > 0 /\ out.calls = Notified(cbs, h[Len(h)])
        ELSE out.calls = << >>

\* C5 witness: a transmit call has just invoked two different listeners, in
\* the order they are registered, with the result now last in the history.
C5_Witness ==
  /\ count.transmit > 0
  /\ Len(History) > 0
  /\ Len(calls) = 2
  /\ calls[1][1] # calls[2][1]
  /\ client.callbacks.on_transmit = <<calls[1][1], calls[2][1]>>
  /\ calls[1][2] = History[Len(History)]
  /\ calls[2][2] = History[Len(History)]

(***************************************************************************)
(* Properties of the connection state (specification SpecState)            *)
(***************************************************************************)
\* C6: assigning the connection state a value different from the current
\* one sets it and invokes the registered state-change listeners in
\* registration order, each once, with (old state, new state): all of them
\* when none raises, otherwise up to and including the first that raises.
\* Assigning the value the state already has invokes no listener and
\* changes nothing.
C6_StateChangeNotifies ==
  \A new_state \in ConnectionState :
    LET out == set_state(client, new_state)
        cbs == client.callbacks.on_state_change
    IN  IF new_state # client.state
        THEN /\ out.c = [client EXCEPT !.state = new_state]
             /\ out.calls = Notified(cbs, <<client.state, new_state>>)
             /\ out.ret.ok <=> FirstRaise(cbs) = 0
        ELSE out.calls = << >> /\ out.c = client /\ out.ret.ok

\* C6 witness: an assignment has just moved the state and invoked two
\* different listeners, in the order they are registered, with the old and
\* the new state.
C6_Witness ==
  /\ Len(calls) = 2
  /\ calls[1][1] # calls[2][1]
  /\ client.callbacks.on_state_change = <<calls[1][1], calls[2][1]>>
  /\ calls[1][2] = calls[2][2]
  /\ calls[1][2][1] # client.state
  /\ calls[1][2][2] = client.state

(***************************************************************************)
(* Properties of the codec (specification SpecCodec)                       *)
(***************************************************************************)
\* a valid message: a topic name of 1 to 64 bytes of UTF-8, a topic version
\* of one byte, at most 1400 bytes of payload, one of the 11 kinds, a
\* sequence number of 32 bits (here below 2^31), a timestamp that is not
\* negative
ValidMessage(m) ==
  /\ Utf8Encode(m.topic.name).ok
  /\ Len(Utf8Encode(m.topic.name).val) \in 1..MAX_TOPIC_NAME
  /\ m.topic.version \in 0..255
  /\ Len(m.payload) <= MAX_PAYLOAD_SIZE
  /\ m.message_type \in MessageType
  /\ m.sequence_number >= 0
  /\ m.timestamp.s = 0

\* C7, as claimed: for every valid message m, decode(encode(m)) succeeds and
\* gives a message with the same topic name, payload, kind, sequence number
\* and the same timestamp in whole milliseconds.
C7_MessageRoundTrip ==
  (wire.phase = "decoded" /\ wire.how = "intact" /\ ValidMessage(wire.obj.val)) =>
    /\ wire.dec.ok
    /\ wire.dec.val.topic.name = wire.obj.val.topic.name
    /\ wire.dec.val.payload = wire.obj.val.payload
    /\ wire.dec.val.message_type = wire.obj.val.message_type
    /\ wire.dec.val.sequence_number = wire.obj.val.sequence_number
    /\ TimestampMillis(wire.dec.val.timestamp) = TimestampMillis(wire.obj.val.timestamp)

\* C8, as claimed: for every valid encoded message, changing its four
\* checksum bytes and nothing else makes decode fail with the checksum
\* mismatch.
C8_ChangedChecksumRejected ==
  (wire.phase = "decoded" /\ wire.how = "checksum" /\ ValidMessage(wire.obj.val)) =>
    wire.dec = Raise("ValueError: Checksum mismatch")

\* C9: decoding a buffer of at least 22 bytes whose first byte is not 0xBC
\* fails with the invalid-magic error, whatever the rest of the buffer holds.
C9_BadMagicRejected ==
  (wire.phase = "decoded" /\ Len(wire.buf) >= header_size
     /\ wire.buf[1] # BCMP_HEADER_MAGIC) =>
    wire.dec = Raise("ValueError: Invalid magic byte")

\* C9 witness: a buffer of 22 bytes or more that no encoder made and that
\* does not open with 0xBC has been decoded.
C9_Witness ==
  /\ wire.phase = "decoded"
  /\ wire.how = "raw"
  /\ Len(wire.buf) > header_size
  /\ wire.buf[1] # BCMP_HEADER_MAGIC
  /\ ~wire.dec.ok

\* C10, as claimed: for every topic the constructor accepts,
\* decode(encode(t)) succeeds and gives a topic with the same name and the
\* same version.
C10_TopicRoundTrip ==
  wire.phase = "topic_decoded" =>
    /\ wire.dec.ok
    /\ wire.dec.val.name = wire.obj.val.name
    /\ wire.dec.val.version = wire.obj.val.version

\* C10, amended: for every topic the constructor accepts whose version is
\* an integer from 0 to 255 and whose name holds no surrogate code point,
\* decode(encode(t)) succeeds and gives a topic with the same name and the
\* same version.
C10_ByteVersionTopicRoundTrip ==
  (wire.phase = "topic_decoded"
     /\ wire.obj.val.version \in 0..255
     /\ \A i \in DOMAIN wire.obj.val.name : ~IsSurrogate(wire.obj.val.name[i])) =>
    /\ wire.dec.ok
    /\ wire.dec.val.name = wire.obj.val.name
    /\ wire.dec.val.version = wire.obj.val.version

\* C10 witness: a topic of version 255 whose name is 64 two-byte characters
\* has been encoded and decoded.
C10_Witness ==
  /\ wire.phase = "topic_decoded"
  /\ wire.obj.val.version = 255
  /\ wire.obj.val.name = Rep(233, MAX_TOPIC_NAME)
  /\ wire.dec.ok

(***************************************************************************)
(* Properties of topic construction (specification SpecCodec)              *)
(***************************************************************************)
\* the name field of an encoded topic: what follows the version byte and the
\* two length bytes
NameField(buf) == SubSeq(buf, 4, Len(buf))

\* C11, as claimed: construction succeeds exactly when the UTF-8 encoding of
\* the name has 1 to 64 bytes, and no constructed topic encodes to a name
\* field of more than 64 bytes.
C11_NameWithin64Bytes ==
  /\ \A name \in CodecNames, version \in CodecVersions :
       Topic_post_init(name, version, None).ok
         <=> (Utf8Encode(name).ok /\ Len(Utf8Encode(name).val) \in 1..MAX_TOPIC_NAME)
  /\ (wire.phase = "topic_encoded" /\ wire.enc.ok) =>
       Len(NameField(wire.buf)) <= MAX_TOPIC_NAME

\* C11, amended: construction succeeds exactly when the name has 1 to 64
\* characters (code points); an empty name and a longer one are rejected
\* with a ValueError; a constructed topic that encodes has a name field of
\* at most 4 * 64 bytes, the UTF-8 encoding of its name.
C11_NameWithin64Characters ==
  /\ \A name \in CodecNames, version \in CodecVersions :
       \A t \in {Topic_post_init(name, version, None)} :
         /\ t.ok <=> Len(name) \in 1..MAX_TOPIC_NAME
         /\ t.ok => t.val.name = name /\ t.val.version = version
         /\ Len(name) = 0 => t = Raise("ValueError: Topic name cannot be empty")
         /\ Len(name) > MAX_TOPIC_NAME =>
              t = Raise("ValueError: Topic name cannot exceed 64 characters")
  /\ (wire.phase = "topic_encoded" /\ wire.enc.ok) =>
       /\ Len(wire.obj.val.name) \in 1..MAX_TOPIC_NAME
       /\ NameField(wire.buf) = Utf8Encode(wire.obj.val.name).val
       /\ Len(NameField(wire.buf)) <= 4 * MAX_TOPIC_NAME

\* C11 witness: a constructed topic whose encoded name field has 128 bytes.
C11_Witness ==
  /\ wire.phase = "topic_encoded"
  /\ wire.enc.ok
  /\ Len(wire.obj.val.name) = MAX_TOPIC_NAME
  /\ Len(NameField(wire.buf)) = 2 * MAX_TOPIC_NAME

(***************************************************************************)
(* Properties of the reading codec (specification SpecCodec)               *)
(***************************************************************************)
\* the depth field of an encoded reading, as the float it unpacks to
DepthField(buf) == FUnpack32(SubSeq(buf, 18, 21))

CandidateValues ==
  {FInt(k) : k \in {0, 5, 6, 45, 46, 50, 51, 600, 601, 4000, 4001}} \cup {FNeg(FInt(k)) : k \in {1, 5, 6}}

\* C12: create_reading of any sensor fails with the ValueError and leaves the
\* sensor's reading log and sequence counter as they were when the value is
\* below the minimum, above the maximum, or the quality is outside 0..100;
\* with a value within the bounds, the bounds included, and a valid quality it
\* appends exactly one reading with that value to the end of the log and
\* returns that reading.
C12_CreateReadingValidates ==
  \A o \in DOMAIN SensorObjects, value \in CandidateValues, quality \in Qualities :
    \A now \in ClockReadings :
      \A out \in {create_reading(o, sensor[o], value, None, None, quality, None, now)} :
        IF \/ FLess(value, SensorObjects[o].min_value)
           \/ FLess(SensorObjects[o].max_value, value)
           \/ quality < 0
           \/ quality > 100
        THEN /\ ~out.ret.ok
             /\ out.ret.err \in {"ValueError: Invalid reading",
                                  "ValueError: Quality must be between 0 and 100"}
             /\ out.st = sensor[o]
        ELSE /\ out.ret.ok
             /\ out.ret.val.value = value
             /\ out.ret.val.quality = quality
             /\ out.st.readings = Append(sensor[o].readings, out.ret.val)
             /\ out.st.sequence_number = sensor[o].sequence_number

\* C12 witness: two create_reading calls were made on one sensor, one with
\* the minimum and one with the maximum, and both readings are in its log.
C12_Witness ==
  \E o \in DOMAIN SensorObjects :
    /\ count.enqueue = 2
    /\ Len(sensor[o].readings) = 2
    /\ sensor[o].readings[1].value = SensorObjects[o].min_value
    /\ sensor[o].readings[2].value = SensorObjects[o].max_value
    /\ sensor[o].sequence_number = 0

\* C13: the counters start at 0, so that a producer's first message is
\* stamped 1.  Every wrap_reading and wrap_current_reading call that returns a
\* message raises the counter of the sensor it is called on by exactly 1 and
\* stamps the new value on the message (a call that raises returns no message
\* and leaves the counter as it was); every queue_raw_data and
\* create_status_message call raises the client's counter by exactly 1 and
\* stamps the new value on the message it returns.  No step lowers or resets
\* a counter, and a step changes the counter of at most one producer.
C13_SequenceNumbersIncrease ==
  /\ client.sequence_number = 0
  /\ \A o \in DOMAIN SensorObjects : sensor[o].sequence_number = 0
  /\ [](\A now \in ClockReadings :
         /\ \A o \in DOMAIN SensorObjects, reading \in CallerReadings :
              \A out \in {wrap_reading(o, sensor[o], reading, now)} :
                IF out.ret.ok
                THEN /\ out.st.sequence_number = sensor[o].sequence_number + 1
                     /\ out.ret.val.sequence_number = out.st.sequence_number
                ELSE out.st.sequence_number = sensor[o].sequence_number
         /\ \A o \in CurrentMeters, reading \in CallerReadings :
              \A direction_deg \in Directions :
                \A out \in {wrap_current_reading(o, sensor[o], reading,
                                                  direction_deg, now)} :
                  IF out.ret.ok
                  THEN /\ out.st.sequence_number = sensor[o].sequence_number + 1
                       /\ out.ret.val.sequence_number = out.st.sequence_number
                  ELSE out.st.sequence_number = sensor[o].sequence_number
         /\ \A data \in RawPayloads :
              \A out \in {queue_raw_data(client, TRANSMIT_DATA, data, SENSOR_DATA, now)} :
                /\ out.c.sequence_number = client.sequence_number + 1
                /\ out.ret.ok => out.ret.val.sequence_number = out.c.sequence_number
         /\ \A out \in {create_status_message(client, now)} :
              /\ out.c.sequence_number = client.sequence_number + 1
              /\ out.ret.ok
              /\ out.ret.val.sequence_number = out.c.sequence_number)
  /\ [][ /\ client'.sequence_number >= client.sequence_number
         /\ \A o \in DOMAIN SensorObjects :
              sensor'[o].sequence_number >= sensor[o].sequence_number
         /\ Cardinality({p \in DOMAIN SensorObjects :
                           sensor'[p].sequence_number # sensor[p].sequence_number})
              + (IF client'.sequence_number # client.sequence_number THEN 1 ELSE 0) <= 1
       ]_vars

\* C13 witness: the client has stamped its first message and the current
\* meter its first one, while every other sensor is still at 0.
C13_Witness ==
  /\ client.sequence_number = 1
  /\ \A o \in DOMAIN SensorObjects :
       sensor[o].sequence_number = IF o \in CurrentMeters THEN 1 ELSE 0

\* C22: create_current_reading fails with the ValueError whenever the
\* direction is outside 0..360 or the speed is outside the sensor's range (or
\* the quality outside 0..100), and then records nothing: the reading log,
\* the direction log and the counter stay as they were.  With a direction and
\* a speed within their bounds, the bounds included, it appends one reading
\* to the reading log and the pair (speed, direction) to the direction log,
\* and returns that reading with the direction.
C22_CurrentReadingValidates ==
  \A o \in CurrentMeters, speed_ms \in CandidateValues, quality \in Qualities :
    \A direction_deg \in CurrentDirections \cup {FInt(90)}, now \in ClockReadings :
      \A out \in {create_current_reading(o, sensor[o], speed_ms, direction_deg,
                                         None, quality, None, now)} :
        IF \/ FLess(direction_deg, FZero)
           \/ FLess(FInt(360), direction_deg)
           \/ FLess(speed_ms, SensorObjects[o].min_value)
           \/ FLess(SensorObjects[o].max_value, speed_ms)
           \/ quality < 0
           \/ quality > 100
        THEN /\ ~out.ret.ok
             /\ out.ret.err \in {"ValueError: Direction must be between 0 and 360 degrees",
                                  "ValueError: Invalid reading",
                                  "ValueError: Quality must be between 0 and 100"}
             /\ out.st = sensor[o]
        ELSE /\ out.ret.ok
             /\ out.ret.val[1].value = speed_ms
             /\ out.ret.val[2] = direction_deg
             /\ out.st.readings = Append(sensor[o].readings, out.ret.val[1])
             /\ out.st.direction_readings =
                  Append(sensor[o].direction_readings, <<speed_ms, direction_deg>>)
             /\ out.st.sequence_number = sensor[o].sequence_number

\* C22 witness: two create_current_reading calls were accepted, one at the
\* lowest speed and direction and one at the highest, and both logs hold
\* both.
C22_Witness ==
  \E o \in CurrentMeters :
    /\ count.enqueue = 2
    /\ Len(sensor[o].readings) = 2
    /\ sensor[o].direction_readings =
         <<<<SensorObjects[o].min_value, FZero>>, <<SensorObjects[o].max_value, FInt(360)>>>>
    /\ sensor[o].readings[1].value = SensorObjects[o].min_value
    /\ sensor[o].readings[2].value = SensorObjects[o].max_value

(***************************************************************************)
(* Properties of the registry (specification SpecClient)                   *)
(***************************************************************************)
\* the registry of a client
Registry(c) == c.sensors

\* C14: register_sensor with a sensor whose id is already registered replaces
\* the earlier sensor: afterwards get_sensor of that id returns the newly
\* registered object, list_sensors holds the id exactly once, and the
\* registry has as many entries as before.
C14_RegisterReplaces ==
  \A o \in RegistryPool :
    \A out \in {register_sensor(client, o)} :
      SensorIndex(Registry(client), SensorObjects[o].sensor_id) # {}
      => /\ out.ret.ok
         /\ get_sensor(out.c, SensorObjects[o].sensor_id).ret = Ok(Some(o))
         /\ Cardinality({i \in DOMAIN list_sensors(out.c).ret.val :
                           list_sensors(out.c).ret.val[i] = SensorObjects[o].sensor_id}) = 1
         /\ Len(Registry(out.c)) = Len(Registry(client))
         /\ Len(list_sensors(out.c).ret.val) = Len(Registry(client))

\* C14 witness: the second TemperatureSensor has just been registered under
\* the id the first one held, next to the PressureSensor, and get_sensor
\* returns the second one.
C14_Witness ==
  /\ wire.phase = "register_sensor"
  /\ wire.obj = Some(3)
  /\ Len(wire.enc) = 2
  /\ get_sensor([client EXCEPT !.sensors = wire.enc], SensorObjects[3].sensor_id).ret
       = Ok(Some(1))
  /\ get_sensor(client, SensorObjects[3].sensor_id).ret = Ok(Some(3))
  /\ Len(Registry(client)) = 2

\* C15: unregister_sensor of an id that is not registered returns False,
\* raises nothing and leaves the registry as it was; of a registered id it
\* returns True and removes exactly the entry of that id, every other entry
\* staying in place.
C15_UnregisterRemovesOne ==
  \A sensor_id \in SensorIds :
    \A out \in {unregister_sensor(client, sensor_id)} :
      IF SensorIndex(Registry(client), sensor_id) = {}
      THEN /\ out.ret = Ok(FALSE)
           /\ out.c = client
      ELSE /\ out.ret = Ok(TRUE)
           /\ get_sensor(out.c, sensor_id).ret = Ok(None)
           /\ Len(Registry(out.c)) = Len(Registry(client)) - 1
           /\ \A other \in SensorIds \ {sensor_id} :
                get_sensor(out.c, other).ret = get_sensor(client, other).ret
           /\ \A i \in SensorIndex(Registry(client), sensor_id) :
                Registry(out.c) = [k \in 1..(Len(Registry(client)) - 1) |->
                                     Registry(client)[IF k < i THEN k ELSE k + 1]]
           /\ out.c = [client EXCEPT !.sensors = Registry(out.c)]

\* C15 witness: of two registered sensors the first one has just been
\* unregistered, True was returned and the second one is still registered.
C15_Witness ==
  /\ wire.phase = "unregister_sensor"
  /\ wire.dec = Ok(TRUE)
  /\ Len(wire.enc) = 2
  /\ wire.obj = Some(wire.enc[1].sensor_id)
  /\ Registry(client) = <<wire.enc[2]>>

(***************************************************************************)
(* Properties of the queue and the history (specifications Spec,           *)
(* SpecClient and SpecDrain)                                               *)
(***************************************************************************)
\* C16: for every n >= 0 and every queue of length q, peek_queue(n) returns
\* exactly the first min(n, q) messages of the queue, oldest first, raises
\* nothing, notifies nobody, and leaves the queue, the history and every
\* counter as they were.
C16_PeekReturnsHead ==
  \A n \in 0..(MaxCap + 1) :
    \A out \in {peek_queue(client, n)} :
      /\ out.ret.ok
      /\ Len(out.ret.val) = IF n <= Len(Queue) THEN n ELSE Len(Queue)
      /\ \A i \in DOMAIN out.ret.val : out.ret.val[i] = Queue[i]
      /\ out.c.message_queue = Queue
      /\ out.c.transmission_history = History
      /\ out.c.sequence_number = client.sequence_number
      /\ out.c = client
      /\ out.calls = << >>

\* C16 witness: a queue of two different messages, of which peek_queue(1)
\* returns the older one only.
C16_Witness ==
  /\ Len(Queue) = 2
  /\ Queue[1] # Queue[2]
  /\ peek_queue(client, 1).ret = Ok(<<Queue[1]>>)
  /\ Len(History) = 1

\* C17, as claimed: for every N >= 0 and every history of length h,
\* get_transmission_history(N) returns exactly the last min(N, h) results in
\* the order they were appended, and get_transmission_history() returns all h
\* results in that order.
C17_HistoryLastN ==
  \A lim \in HistoryLimits :
    \A out \in {get_transmission_history(client, lim)} :
      /\ out.ret.ok
      /\ out.c = client
      /\ IF lim = None THEN out.ret.val = History
         ELSE /\ Len(out.ret.val) = Min(lim[1], Len(History))
              /\ \A i \in DOMAIN out.ret.val :
                   out.ret.val[i] = History[Len(History) - Len(out.ret.val) + i]

\* C18: the transmission history is append-only.  Whatever the client does
\* (enqueue, transmit, clear_queue, a registry change, a state assignment, a
\* history retrieval), every result that was in the history before the step
\* is at the same index after it, with the same success flag, count, byte
\* total and mode: no step removes, reorders or rewrites an entry.
C18_HistoryAppendOnly ==
  [][ /\ Len(History') >= Len(History)
      /\ \A i \in DOMAIN History :
           /\ History'[i].success = History[i].success
           /\ History'[i].message_count = History[i].message_count
           /\ History'[i].bytes_transmitted = History[i].bytes_transmitted
           /\ History'[i].transmission_mode = History[i].transmission_mode
           /\ History'[i] = History[i]
    ]_vars

\* C18 witness: two results are in the history, the first one of the default
\* mode and the second one of a named mode, and since then a sensor has been
\* unregistered, the state has been assigned and the queue is empty.
C18_Witness ==
  /\ Len(History) = 2
  /\ History[1].transmission_mode = "hybrid"
  /\ History[2].transmission_mode = "cellular"
  /\ wire.phase = "unregister_sensor"
  /\ client.state = "error"
  /\ Len(Queue) = 0

\* the length of the encoding of a message, field by field: the header, the
\* topic length, the topic block (version, name length, name), the payload
\* length, the payload and the checksum
WireSize(msg) ==
  22 + 2 + (1 + 2 + Len(Utf8Encode(msg.topic.name).val)) + 2 + Len(msg.payload) + 4

RECURSIVE WireSizes(_)
WireSizes(msgs) ==
  IF msgs = << >> THEN 0 ELSE WireSize(Head(msgs)) + WireSizes(Tail(msgs))

\* C19: the result of a transmit call that drains the messages D from the
\* head of the queue is marked successful, has message count |D|, has a byte
\* total equal to the sum over D of the full encoded length of each message,
\* and carries the mode passed to the call, or the configured mode of the
\* client when none is passed; the result is the one appended to the history.
C19_ResultDescribesDrain ==
  \A mode \in {None} \cup {Some(m) : m \in TransmissionMode} :
    \A max_messages \in {None} \cup {Some(k) : k \in 1..MaxCap}, now \in ClockReadings :
      \A out \in {transmit(client, mode, max_messages, now)} :
        \A D \in {SubSeq(Queue, 1, Len(Queue) - Len(out.c.message_queue))} :
          /\ out.ret.ok
          /\ out.c.message_queue = SubSeq(Queue, Len(D) + 1, Len(Queue))
          /\ out.ret.val.success
          /\ out.ret.val.message_count = Len(D)
          /\ out.ret.val.bytes_transmitted = WireSizes(D)
          /\ out.ret.val.transmission_mode =
               IF mode = None THEN client.config.transmission_mode ELSE mode[1]
          /\ Len(D) > 0 => out.c.transmission_history = Append(History, out.ret.val)

\* C19 witness: a transmit call with a named mode has drained a reading
\* message and a raw message, which differ in length, and its result is the
\* last one of the history.
C19_Witness ==
  /\ Len(History) = 1
  /\ History[1].transmission_mode = "cellular"
  /\ History[1].message_count = 2
  /\ History[1].bytes_transmitted = 80 + 57
  /\ History[1].success
  /\ Len(Queue) = 0
  /\ count.transmit = 1

(***************************************************************************)
(* Properties of the status message (specification SpecStatus)             *)
(***************************************************************************)
\* the text is part of the payload
Contains(payload, text) ==
  \E k \in 0..(Len(payload) - Len(text)) :
    \A i \in DOMAIN text : payload[k + i] = text[i]

\* sensor ids as a JSON list: ["a", "b"]
RECURSIVE IdList(_)
IdList(ids) ==
  IF ids = << >> THEN << >>
  ELSE <<34>> \o Chars(Head(ids)) \o <<34>>
       \o (IF Len(ids) > 1 THEN <<44, 32>> ELSE << >>) \o IdList(Tail(ids))

\* what the payload of a status message of client c has to hold: the state,
\* the queue length (one digit here) and the registered ids
StatusRecords(c, payload) ==
  /\ Contains(payload, <<34, 115, 116, 97, 116, 101, 34, 58, 32, 34>> \o Chars(c.state) \o <<34, 44>>)
  /\ Contains(payload, <<34, 113, 117, 101, 117, 101, 95, 115, 105, 122, 101, 34, 58, 32>> \o <<48 + Len(c.message_queue), 44>>)
  /\ Contains(payload, <<34, 114, 101, 103, 105, 115, 116, 101, 114, 101, 100, 95, 115, 101, 110, 115, 111, 114, 115, 34, 58, 32, 91>>
                         \o IdList([i \in DOMAIN c.sensors |-> c.sensors[i].sensor_id])
                         \o <<93, 44>>)

\* C24: create_status_message returns a message on the topic spotter/status
\* whose payload records the current connection state, the current queue
\* length and the ids of the sensors registered now; the message is not put
\* on the queue, and the queue, the registry, the history and the connection
\* state are as they were (only the client's sequence counter moves).
C24_StatusMessageSnapshot ==
  \A now \in ClockReadings :
    \A out \in {create_status_message(client, now)} :
      /\ out.ret.ok
      /\ out.ret.val.topic = STATUS
      /\ out.ret.val.topic.name = <<115, 112, 111, 116, 116, 101, 114, 47, 115, 116, 97, 116, 117, 115>>
      /\ StatusRecords(client, out.ret.val.payload)
      /\ out.c.message_queue = Queue
      /\ out.c.sensors = Registry(client)
      /\ out.c.transmission_history = History
      /\ out.c.state = client.state
      /\ out.c = [client EXCEPT !.sequence_number = @ + 1]
      /\ out.calls = << >>

\* C24 witness: a status message was created by a client that is connected,
\* has two sensors registered and one message queued, and the queue still
\* holds that one message, which is not the status message.
C24_Witness ==
  /\ wire.phase = "status"
  /\ wire.dec.ok
  /\ client.state = "connected"
  /\ Len(Registry(client)) = 2
  /\ Len(Queue) = 1
  /\ Queue[1] # wire.dec.val
  /\ StatusRecords(client, wire.dec.val.payload)

(***************************************************************************)
(* Properties of failing listeners (specification SpecListen)              *)
(***************************************************************************)
\* C20: what a transmit listener or a state-change listener raises is not
\* caught by the client.  When a listener that raises is registered, a
\* transmit call that reaches the notification, and an assignment that
\* changes the state, end with that failure for their caller, after invoking
\* the listeners registered before the failing one and the failing one, and
\* none of the listeners registered after it.
C20_ListenerFailurePropagates ==
  /\ \A a \in TransmitCalls : \A out \in {transmit(client, a[1], a[2], a[3])} :
       \A cbs \in {client.callbacks.on_transmit} :
         (Len(Queue) > 0 /\ FirstRaise(cbs) > 0)
         => /\ ~out.ret.ok
            /\ out.ret.err = "ListenerError"
            /\ Len(out.calls) = FirstRaise(cbs)
            /\ \A i \in DOMAIN out.calls : out.calls[i][1] = cbs[i]
            /\ ListenerRaises(out.calls[Len(out.calls)][1])
  /\ \A new_state \in ConnectionState \ {client.state} :
       \A out \in {set_state(client, new_state)} :
         \A cbs \in {client.callbacks.on_state_change} :
           FirstRaise(cbs) > 0
           => /\ ~out.ret.ok
              /\ out.ret.err = "ListenerError"
              /\ Len(out.calls) = FirstRaise(cbs)
              /\ \A i \in DOMAIN out.calls : out.calls[i][1] = cbs[i]
              /\ ListenerRaises(out.calls[Len(out.calls)][1])

\* C20 witness: a transmit call has just recorded its result and invoked the
\* first of two transmit listeners, which raises; the second one, registered
\* after it, was not invoked.
C20_Witness ==
  /\ Len(client.callbacks.on_transmit) = 2
  /\ ListenerRaises(client.callbacks.on_transmit[1])
  /\ ~ListenerRaises(client.callbacks.on_transmit[2])
  /\ Len(History) = 1
  /\ calls = <<<<client.callbacks.on_transmit[1], History[1]>>>>

(***************************************************************************)
(* Properties of the client as a whole (specification SpecClient)          *)
(***************************************************************************)
\* C21: the connection state starts as "disconnected" and changes only by an
\* assignment to state.  No registry operation, enqueue, peek_queue,
\* clear_queue, transmit, history retrieval, create_status_message or
\* listener registration changes it; an assignment of any of the four states
\* from any state leaves the client in the assigned state; and a step that
\* changes the state is an assignment and changes nothing else of the client.
C21_StateChangesByAssignment ==
  /\ client.state = "disconnected"
  /\ [](/\ \A o \in RegistryPool : register_sensor(client, o).c.state = client.state
        /\ \A sensor_id \in SensorIds :
             /\ unregister_sensor(client, sensor_id).c.state = client.state
             /\ get_sensor(client, sensor_id).c.state = client.state
        /\ list_sensors(client).c.state = client.state
        /\ \A now \in ClockReadings :
             /\ \A o \in SensorPool, reading \in CallerReadings :
                  queue_reading(client, wrap_reading(o, sensor[o], reading, now)).c.state
                    = client.state
             /\ \A data \in RawPayloads :
                  queue_raw_data(client, TRANSMIT_DATA, data, SENSOR_DATA, now).c.state
                    = client.state
             /\ \A mode \in TransmitModes, max_messages \in MaxMessagesArgs :
                  transmit(client, mode, max_messages, now).c.state = client.state
             /\ create_status_message(client, now).c.state = client.state
        /\ \A message \in CallerMessages :
             queue_message(client, message).c.state = client.state
        /\ \A n \in -1..MaxCap : peek_queue(client, n).c.state = client.state
        /\ clear_queue(client).c.state = client.state
        /\ \A lim \in HistoryLimits :
             get_transmission_history(client, lim).c.state = client.state
        /\ \A l \in Listeners :
             /\ on_transmit(client, l).c.state = client.state
             /\ on_error(client, l).c.state = client.state
             /\ on_state_change(client, l).c.state = client.state
        /\ \A new_state \in ConnectionState :
             /\ set_state(client, new_state).c = [client EXCEPT !.state = new_state]
             /\ set_state(client, new_state).ret.ok)
  /\ [][ client'.state # client.state
         => client' = set_state(client, client'.state).c ]_vars

\* C21 witness: the state has been assigned away from "disconnected" and,
\* since then, a sensor was registered, a message queued, the queue
\* transmitted and a second message queued, the state staying as assigned.
C21_Witness ==
  /\ client.state = "connected"
  /\ Len(Registry(client)) = 1
  /\ Len(History) = 1
  /\ Len(Queue) = 1

\* ---------------------------------------------------------------------------
\* Properties of a failing enqueue (specification SpecStatus)
\* ---------------------------------------------------------------------------

\* C25: queue_raw_data with a payload longer than 1400 bytes fails with the
\* payload-size error, enqueues nothing, and leaves the queue and the client's
\* sequence counter exactly as they were before the call
C25_FailedEnqueueLeavesClient ==
  \A data \in RawPayloads, now \in ClockReadings :
    Len(data) > MAX_PAYLOAD_SIZE =>
      \A out \in {queue_raw_data(client, TRANSMIT_DATA, data, SENSOR_DATA, now)} :
        /\ out.ret = Raise("ValueError: Payload size exceeds maximum")
        /\ out.c.message_queue = client.message_queue
        /\ out.c.sequence_number = client.sequence_number

\* ---------------------------------------------------------------------------
\* Properties of decoding truncated input (specification SpecCodec)
\* ---------------------------------------------------------------------------

\* C26: decoding a proper prefix of a valid encoded message fails with a
\* format error or the checksum mismatch, and with the error "Message too
\* short" whenever the prefix has fewer than 22 bytes
C26_TruncatedInputRejected ==
  (wire.phase = "decoded" /\ wire.how = "truncated" /\ ValidMessage(wire.obj.val)) =>
    /\ ~wire.dec.ok
    /\ wire.dec.err \in {"ValueError: Message too short",
                         "ValueError: Invalid magic byte",
                         "ValueError: Topic name cannot be empty",
                         "ValueError: Topic name cannot exceed 64 characters",
                         "ValueError: not a valid MessageType",
                         "ValueError: Payload size exceeds maximum",
                         "ValueError: Checksum mismatch"}
    /\ Len(wire.buf) < header_size => wire.dec.err = "ValueError: Message too short"

\* ---------------------------------------------------------------------------
\* Properties of state notifications (specification SpecReenter)
\* ---------------------------------------------------------------------------

\* C27: every state listener sees the transitions in the order they
\* happened: the old state of each notification it receives is the new state
\* of the notification it received just before ("disconnected" for its first
\* one when it was registered before any assignment), also when a listener
\* assigns the state from inside its callback
C27_NotificationsInOrder ==
  \A i \in DOMAIN calls :
    IF \E j \in 1..(i - 1) : calls[j][1] = calls[i][1]
    THEN calls[i][2][1] = LastSeen(SubSeq(calls, 1, i - 1), calls[i][1], None)[1]
    ELSE wire.enc[calls[i][1]] # None => calls[i][2][1] = wire.enc[calls[i][1]][1]

\* ---------------------------------------------------------------------------
\* Properties of the order of effects and notifications (specification
\* SpecListen)
\* ---------------------------------------------------------------------------

\* C28: the effects of an operation are in place before its listeners run
\* and stay when a listener raises.  Whenever a transmit call invokes a
\* listener, the messages it drained are out of the queue and the result the
\* listeners received is the last entry of the history; whenever an
\* assignment invokes a listener, the client's state is the new state the
\* listeners received; both also when the call ends with the listener's
\* failure.
C28_EffectsBeforeListeners ==
  /\ \A a \in TransmitCalls : \A out \in {transmit(client, a[1], a[2], a[3])} :
       out.calls # << >>
       => /\ Len(out.c.transmission_history) = Len(History) + 1
          /\ \A i \in DOMAIN out.calls :
               /\ out.calls[i][2] = out.c.transmission_history[Len(History) + 1]
               /\ out.calls[i][2].message_count \in 0..Len(Queue)
               /\ out.c.message_queue
                    = SubSeq(Queue, out.calls[i][2].message_count + 1, Len(Queue))
  /\ \A new_state \in ConnectionState : \A out \in {set_state(client, new_state)} :
       out.calls # << >>
       => /\ out.c.state = new_state
          /\ \A i \in DOMAIN out.calls : out.calls[i][2] = <<client.state, new_state>>

\* C28 witness: the only transmit listener raised on the result of a drain
\* of one message; the queue is empty and the history ends with that result,
\* and the client is in a state that an assignment with a raising listener
\* left it in.
C28_Witness ==
  /\ client.callbacks.on_transmit = <<"boom">>
  /\ client.callbacks.on_state_change = <<"boom">>
  /\ client.state = "error"
  /\ Len(calls) = 1
  /\ calls[1][1] = "boom"
  /\ History # << >>
  /\ calls[1][2] = History[Len(History)]
  /\ calls[1][2].message_count = 1
  /\ Queue = << >>

\* ---------------------------------------------------------------------------
\* Properties of the message balance (specification Spec)
\* ---------------------------------------------------------------------------
RECURSIVE MessageCounts(_)
\* the sum of the message counts of these results
MessageCounts(h) ==
  IF h = << >> THEN 0 ELSE h[1].message_count + MessageCounts(Tail(h))

\* the messages the client accounts for: those in the queue and those its
\* transmission results count
Accounted(c) == Len(c.message_queue) + MessageCounts(c.transmission_history)

\* C29: messages are conserved.  The number of messages ever enqueued equals
\* the queue length plus the message counts of the history plus the number
\* evicted on overflow plus the number removed by clear_queue; stated for
\* one call at a time: an enqueue adds one message to the account unless it
\* evicts one, a transmit moves messages from the queue into exactly one
\* result and leaves the account as it was, and a clear_queue takes from the
\* account the number it returns, which is the queue length.
C29_MessagesConserved ==
  /\ \A message \in CallerMessages : \A out \in {queue_message(client, message)} :
       Accounted(out.c)
         = Accounted(client) + 1 - (IF Len(Queue) = Capacity THEN 1 ELSE 0)
  /\ \A a \in TransmitCalls : \A out \in {transmit(client, a[1], a[2], a[3])} :
       /\ Accounted(out.c) = Accounted(client)
       /\ Len(out.c.transmission_history) <= Len(History) + 1
       /\ SubSeq(out.c.transmission_history, 1, Len(History)) = History
       /\ out.c.message_queue
            = SubSeq(Queue, Len(Queue) - Len(out.c.message_queue) + 1, Len(Queue))
  /\ \A out \in {clear_queue(client)} :
       /\ out.ret = Ok(Len(Queue))
       /\ Accounted(out.c) = Accounted(client) - Len(Queue)

\* ---------------------------------------------------------------------------
\* Properties of the error listeners (specification SpecError)
\* ---------------------------------------------------------------------------

\* the listeners these calls invoked
Invoked(cs) == {cs[i][1] : i \in DOMAIN cs}

=============================================================================
